---- MODULE Spec2Model ----
(***************************************************************************)
(* Two-phase commit support (src/backend/access/transam/twophase.c).       *)
(*                                                                         *)
(* The model is a state machine of backends running PREPARE TRANSACTION,   *)
(* COMMIT PREPARED and ROLLBACK PREPARED against the shared gxact          *)
(* registry, the pg_twophase state files, the WAL and pg_clog, together    *)
(* with a checkpointer, crashes and the startup sequence (WAL redo,        *)
(* PrescanPreparedTransactions, RecoverPreparedTransactions).              *)
(*                                                                         *)
(* Sizes are counted in 4-byte words; MAXALIGN is 8 bytes (2 words).  A    *)
(* GID is one word (an identifier) instead of a 200-byte string.  The CRC  *)
(* is a 16-bit multiplicative checksum with the INIT/COMP/FIN structure    *)
(* of pg_crc32.                                                            *)
(***************************************************************************)
EXTENDS Integers, Sequences, FiniteSets, TLC

\* ------------------------------------------------------------------ bounds
NBackends == 2
NSlots == 2
NGids == 1
MaxXid == 5
MaxCommands == 3
MaxSubxacts == 1
NRels == 1
MaxCrashes == 1
MaxCheckpoints == 1

\* ------------------------------------------------------- program constants
InvalidTransactionId == 0
TWOPHASE_MAGIC == 1475953968
TWOPHASE_RM_END_ID == 0
TWOPHASE_RM_LOCK_ID == 1
TWOPHASE_RM_INVAL_ID == 2
MaxFileWords == 2500000
GIDSIZE == 200

max_prepared_xacts == NSlots

Backends == 1 .. NBackends
\* the startup process, which is no backend
StartupProcess == 0
Slots == 1 .. max_prepared_xacts
Gids == 1 .. NGids
\* A GID is an identifier: the identifiers from GIDSIZE on stand for strings
\* of that many bytes, the others for strings of GIDSIZE - 1 bytes
LongGids == {GIDSIZE, GIDSIZE + 1}
Xids == 1 .. MaxXid
\* A TransactionId is 32 bits wide and is written here as the signed value of
\* its bit pattern: FFFFFFFE, the name strtoul reads from a directory entry
\* of a transaction old enough to lie before the wrap of the counter, is -2
Xid_FFFFFFFE == -2
AllXids == Xids \cup {Xid_FFFFFFFE}
BootstrapSuperUser == 1
OrdinaryUser == 2
Users == {BootstrapSuperUser, OrdinaryUser}
Superusers == {BootstrapSuperUser}
MyDatabaseId == 1

NoFile == [exists |-> FALSE, bytes |-> << >>]

\* clog states
XIP == "in_progress"
XCOMMITTED == "committed"
XABORTED == "aborted"

VARIABLES
    prepXacts,      \* TwoPhaseState->prepXacts[0 .. numPrepXacts-1], slot ids
    freeGXacts,     \* TwoPhaseState->freeGXacts, the free list, head first
    gxacts,         \* the GlobalTransactionData structs, by slot
    TwoPhaseStateLock,  \* the processes holding TwoPhaseStateLock
    procArray,      \* slots whose dummy PGPROC is in the ProcArray
    nextXid,        \* ShmemVariableCache->nextXid
    prescan,        \* the last PrescanPreparedTransactions: its origNextXid,
                    \* the directory entries it read, and its result
    clog,           \* pg_clog as the running system sees it
    clogDisk,       \* pg_clog as written at the last completed checkpoint
    wal,            \* the WAL records inserted so far
    walFlushed,     \* number of WAL records known flushed
    redoPtr,        \* records before this index are not replayed
    ckpt,           \* the checkpointer
    ckptShared,     \* backends holding CheckpointStartLock in shared mode
    files,          \* pg_twophase as the running system sees it, by xid
    disk,           \* pg_twophase as fsynced
    locks,          \* xids whose locks the lock manager holds
    unlinked,       \* relfilenodes unlinked by smgrdounlink
    pc,             \* each backend's position
    bk,             \* each backend's local variables
    startup,        \* position of the startup process ("up" when running)
    prepared,       \* history: <<xid, gid>> for which PREPARE returned
    finishing,      \* history: xids for which a finish record was inserted
    crashes,        \* history: number of crashes so far
    ncmds,          \* history: number of commands started so far
    committed,      \* history: xids for which COMMIT PREPARED returned
    interrupted     \* history: the PREPAREs the last crash interrupted

vars == << prepXacts, freeGXacts, gxacts, TwoPhaseStateLock, procArray,
           nextXid, prescan, clog, clogDisk,
           wal, walFlushed, redoPtr, ckpt, ckptShared, files, disk, locks,
           unlinked, pc, bk, startup, prepared, finishing, crashes, ncmds,
           committed, interrupted >>

registry == << prepXacts, freeGXacts, gxacts >>
walvars == << wal, walFlushed, redoPtr >>
hist == << prepared, finishing, crashes, ncmds, committed, interrupted >>

\* ----------------------------------------------------------------- helpers
Max(a, b) == IF a > b THEN a ELSE b

Min(a, b) == IF a < b THEN a ELSE b

MAXALIGN(n) == ((n + 1) \div 2) * 2

Range(s) == { s[i] : i \in DOMAIN s }

RECURSIVE SeqMax(_)
SeqMax(s) == IF s = << >> THEN 0 ELSE Max(Head(s), SeqMax(Tail(s)))

\* pg_crc32 stand-in: INIT_CRC32, COMP_CRC32 over the words, FIN_CRC32
CrcMask == 65535

RECURSIVE COMP_CRC32(_, _)
COMP_CRC32(crc, data) ==
    IF data = << >> THEN crc
    ELSE COMP_CRC32((crc * 31 + (Head(data) % (CrcMask + 1))) % (CrcMask + 1),
                    Tail(data))

INIT_CRC32 == CrcMask

FIN_CRC32(crc) == CrcMask - crc

BitNot(crc) == CrcMask - crc

StateFileCrc(data) == FIN_CRC32(COMP_CRC32(INIT_CRC32, data))

\* TransactionIdIsActive: some live backend runs a transaction with this xid
\* (dummy PGPROCs of prepared transactions have pid = 0 and are ignored)
TransactionIdIsActive(xid) ==
    xid # InvalidTransactionId /\ \E b \in Backends : bk[b].myxid = xid

TransactionIdIsValid(xid) == xid # InvalidTransactionId

superuser_arg(user) == user = BootstrapSuperUser

strlen(gid) == IF gid >= GIDSIZE THEN gid ELSE GIDSIZE - 1

TransactionIdDidCommit(xid) == clog[xid] = XCOMMITTED

TransactionIdDidAbort(xid) == clog[xid] = XABORTED

\* ---------------------------------------------------------- backend locals
\* (stale is history: the locking_xid LockGXact found on the entry it locked;
\* calls is history: the callbacks ProcessRecords has invoked, in order;
\* cached_xid and cached_proc are the static variables of
\* TwoPhaseGetDummyProc, lines 577-578, which live as long as the process)
NoLocal == [myxid |-> InvalidTransactionId, gid |-> 0, user |-> 0, gx |-> 0,
            xid |-> InvalidTransactionId, isCommit |-> FALSE,
            children |-> << >>, nrels |-> 0,
            records |-> << >>, buf |-> << >>, crc |-> 0, recptr |-> 0,
            err |-> "none", array |-> << >>, currIdx |-> 0, rows |-> << >>,
            stale |-> InvalidTransactionId, calls |-> << >>,
            cached_xid |-> InvalidTransactionId, cached_proc |-> 0]

\* The locals of a backend between commands: everything but the statics
Fresh(b) == [NoLocal EXCEPT !.cached_xid = bk[b].cached_xid,
                            !.cached_proc = bk[b].cached_proc]

EmptyGXact == [xid |-> InvalidTransactionId, databaseId |-> 0, owner |-> 0,
               locking_xid |-> InvalidTransactionId, valid |-> FALSE, gid |-> 0]

NoPrescan ==
    [origNextXid |-> InvalidTransactionId, seen |-> {},
     result |-> InvalidTransactionId]

NothingInterrupted ==
    [unlogged |-> {}, leftover |-> {}, logged |-> {}, committing |-> {},
     ncmds |-> 0]

\* TwoPhaseShmemInit: the free list is built by pushing gxacts[0..n-1]
RECURSIVE InitFreeList(_)
InitFreeList(n) == IF n = 0 THEN << >> ELSE << n >> \o InitFreeList(n - 1)

Init ==
    /\ prepXacts = << >>
    /\ freeGXacts = InitFreeList(max_prepared_xacts)
    /\ gxacts = [s \in Slots |-> EmptyGXact]
    /\ TwoPhaseStateLock = {}
    /\ procArray = {}
    /\ nextXid = 1
    /\ prescan = NoPrescan
    /\ clog = [x \in AllXids |-> XIP]
    /\ clogDisk = [x \in AllXids |-> XIP]
    /\ wal = << >>
    /\ walFlushed = 0
    /\ redoPtr = 1
    /\ ckpt = [pc |-> "idle", redo |-> 1, nextXid |-> 1, ctlNextXid |-> 1, n |-> 0]
    /\ ckptShared = {}
    /\ files = [x \in AllXids |-> NoFile]
    /\ disk = [x \in AllXids |-> NoFile]
    /\ locks = {}
    /\ unlinked = {}
    /\ pc = [b \in Backends |-> "idle"]
    /\ bk = [b \in Backends |-> NoLocal]
    /\ startup = "up"
    /\ prepared = {}
    /\ finishing = {}
    /\ crashes = 0
    /\ ncmds = 0
    /\ committed = {}
    /\ interrupted = NothingInterrupted

\* ---------------------------------------------------------------- registry

\* The dead gxact taken out of the array and not put back in the freelist
RecycleGXact_notFreed(reg, i) ==
    LET n == Len(reg.px)
    IN [reg EXCEPT
          !.px = IF i = n THEN SubSeq(reg.px, 1, n - 1)
                 ELSE [SubSeq(reg.px, 1, n - 1) EXCEPT ![i] = reg.px[n]]]

\* MarkAsPreparing, lines 229-234: the dead gxact at index i is removed from
\* the active array (the last one takes its place) and put back in the
\* freelist.  reg is the registry [px, fr, gx].
RecycleGXact(reg, i) ==
    LET g == reg.px[i]
        n == Len(reg.px)
    IN [reg EXCEPT
          !.px = IF i = n THEN SubSeq(reg.px, 1, n - 1)
                 ELSE [SubSeq(reg.px, 1, n - 1) EXCEPT ![i] = reg.px[n]],
          !.fr = << g >> \o reg.fr]

\* The sweep going on to the next index after a removal
RECURSIVE RecycleLoop_noBackup(_, _)
RecycleLoop_noBackup(i, reg) ==
    IF i > Len(reg.px) THEN reg
    ELSE LET g == reg.px[i]
         IN IF ~reg.gx[g].valid /\ ~TransactionIdIsActive(reg.gx[g].locking_xid)
            THEN RecycleLoop_noBackup(i + 1, RecycleGXact(reg, i))
            ELSE RecycleLoop_noBackup(i + 1, reg)

\* MarkAsPreparing, lines 224-238: recycle gxacts that failed during prepare;
\* the index is backed up after a removal.
RECURSIVE RecycleLoop(_, _)
RecycleLoop(i, reg) ==
    IF i > Len(reg.px) THEN reg
    ELSE LET g == reg.px[i]
         IN IF ~reg.gx[g].valid /\ ~TransactionIdIsActive(reg.gx[g].locking_xid)
            THEN RecycleLoop(i, RecycleGXact(reg, i))
            ELSE RecycleLoop(i + 1, reg)

\* The GID conflict looked for among the valid entries only
GidInUse_validOnly(reg, gid) ==
    \E i \in DOMAIN reg.px :
        reg.gx[reg.px[i]].valid /\ reg.gx[reg.px[i]].gid = gid

\* MarkAsPreparing, lines 241-251: does a remaining entry carry this GID?
GidInUse(reg, gid) == \E i \in DOMAIN reg.px : reg.gx[reg.px[i]].gid = gid

\* The gxact filled in and appended, but left on the free list
ReserveGXact_notPopped(reg, xid, databaseid, gid, owner) ==
    LET g == Head(reg.fr)
    IN [px |-> Append(reg.px, g),
        fr |-> reg.fr,
        gx |-> [reg.gx EXCEPT ![g] =
                   [xid |-> xid, databaseId |-> databaseid, owner |-> owner,
                    locking_xid |-> xid, valid |-> FALSE, gid |-> gid]]]

\* MarkAsPreparing, lines 253-288: take a gxact off the free list, fill it in
\* and append it to the used array
ReserveGXact(reg, xid, databaseid, gid, owner) ==
    LET g == Head(reg.fr)
    IN [px |-> Append(reg.px, g),
        fr |-> Tail(reg.fr),
        gx |-> [reg.gx EXCEPT ![g] =
                   [xid |-> xid, databaseId |-> databaseid, owner |-> owner,
                    locking_xid |-> xid, valid |-> FALSE, gid |-> gid]]]

\* MarkAsPreparing without the recycling of dead gxacts
MarkAsPreparing_noRecycle(reg, xid, databaseid, gid, owner) ==
    LET st == reg
    IN IF GidInUse(st, gid) THEN [err |-> "duplicate_gid", reg |-> st, slot |-> 0]
       ELSE IF st.fr = << >> THEN [err |-> "out_of_slots", reg |-> st, slot |-> 0]
       ELSE IF ~(Len(st.px) < max_prepared_xacts)
       THEN [err |-> "assertion_failed", reg |-> st, slot |-> 0]
       ELSE [err |-> "none", reg |-> ReserveGXact(st, xid, databaseid, gid, owner),
             slot |-> Head(st.fr)]

\* MarkAsPreparing without the search for a conflicting GID
MarkAsPreparing_noConflictCheck(reg, xid, databaseid, gid, owner) ==
    LET st == RecycleLoop(1, reg)
    IN IF st.fr = << >> THEN [err |-> "out_of_slots", reg |-> st, slot |-> 0]
       ELSE IF ~(Len(st.px) < max_prepared_xacts)
       THEN [err |-> "assertion_failed", reg |-> st, slot |-> 0]
       ELSE [err |-> "none", reg |-> ReserveGXact(st, xid, databaseid, gid, owner),
             slot |-> Head(st.fr)]

\* MarkAsPreparing as a function of the registry: the outcome, the new
\* registry and the slot.  An ERROR is raised after the recycling is done;
\* the Assert of line 286 is checked just before the gxact is appended.
MarkAsPreparing(reg, xid, databaseid, gid, owner) ==
    LET st == RecycleLoop(1, reg)
    IN IF GidInUse(st, gid) THEN [err |-> "duplicate_gid", reg |-> st, slot |-> 0]
       ELSE IF st.fr = << >> THEN [err |-> "out_of_slots", reg |-> st, slot |-> 0]
       ELSE IF ~(Len(st.px) < max_prepared_xacts)
       THEN [err |-> "assertion_failed", reg |-> st, slot |-> 0]
       ELSE [err |-> "none", reg |-> ReserveGXact(st, xid, databaseid, gid, owner),
             slot |-> Head(st.fr)]

Registry == [px |-> prepXacts, fr |-> freeGXacts, gx |-> gxacts]

SetRegistry(reg) ==
    /\ prepXacts' = reg.px
    /\ freeGXacts' = reg.fr
    /\ gxacts' = reg.gx

\* RemoveGXact, lines 410-426, as a function of the used array
RemoveFromArray(px, g) ==
    LET n == Len(px)
        i == CHOOSE k \in DOMAIN px : px[k] = g
    IN IF i = n THEN SubSeq(px, 1, n - 1)
       ELSE [SubSeq(px, 1, n - 1) EXCEPT ![i] = px[n]]

\* --------------------------------------------------------- state file format
SizeofHeader == 9

SizeofRecordOnDisk == 2

SizeofRelFileNode == 3

SizeofCrc == 1

Pad(s) == IF Len(s) % 2 = 1 THEN Append(s, 0) ELSE s

\* save_state_data, lines 690-711: the block is copied and padded to MAXALIGN
save_state_data(records, data) == records \o Pad(data)

\* RegisterTwoPhaseRecord, lines 929-941
RegisterTwoPhaseRecord(records, rmid, info, data) ==
    LET r == save_state_data(records, << Len(data), rmid + 256 * info >>)
    IN IF Len(data) > 0 THEN save_state_data(r, data) ELSE r

RelFileNode(relNode) == << 0, MyDatabaseId, relNode >>

RECURSIVE RelNodes(_, _, _)
RelNodes(xid, base, n) ==
    IF n = 0 THEN << >>
    ELSE RelNodes(xid, base, n - 1) \o RelFileNode(10 * xid + base + n)

\* smgrGetPendingDeletes(true / false): the files the transaction dropped
\* (deleted at commit) and created (deleted at abort)
CommitRels(xid, n) == RelNodes(xid, 0, n)

AbortRels(xid, n) == RelNodes(xid, 5, n)

\* StartPrepare, lines 727-770: header, subxacts, commit rels, abort rels
StartPrepareRecords(xid, owner, gid, children, nrels) ==
    LET hdr == << TWOPHASE_MAGIC, 0, xid, MyDatabaseId, owner,
                  Len(children), nrels, nrels, gid >>
        r0 == save_state_data(<< >>, hdr)
        r1 == IF Len(children) > 0 THEN save_state_data(r0, children) ELSE r0
        r2 == IF nrels > 0 THEN save_state_data(r1, CommitRels(xid, nrels)) ELSE r1
        r3 == IF nrels > 0 THEN save_state_data(r2, AbortRels(xid, nrels)) ELSE r2
    IN r3

\* total_len without the room for the CRC
EndPrepareRecords_lenWithoutCrc(records) ==
    LET r == RegisterTwoPhaseRecord(records, TWOPHASE_RM_END_ID, 0, << >>)
    IN [r EXCEPT ![2] = Len(r)]

\* EndPrepare, lines 790-797: end sentinel, then total_len in the header
EndPrepareRecords(records) ==
    LET r == RegisterTwoPhaseRecord(records, TWOPHASE_RM_END_ID, 0, << >>)
    IN [r EXCEPT ![2] = Len(r) + SizeofCrc]

\* Accessors of a state file image (the header fields and the segments)
HdrMagic(buf) == buf[1]

HdrTotalLen(buf) == buf[2]

HdrXid(buf) == buf[3]

HdrDatabase(buf) == buf[4]

HdrOwner(buf) == buf[5]

HdrNsubxacts(buf) == buf[6]

HdrNcommitrels(buf) == buf[7]

HdrNabortrels(buf) == buf[8]

HdrGid(buf) == buf[9]

ChildrenOff(buf) == MAXALIGN(SizeofHeader)

CommitRelsOff(buf) == ChildrenOff(buf) + MAXALIGN(HdrNsubxacts(buf))

AbortRelsOff(buf) ==
    CommitRelsOff(buf) + MAXALIGN(HdrNcommitrels(buf) * SizeofRelFileNode)

RecordsOff(buf) ==
    AbortRelsOff(buf) + MAXALIGN(HdrNabortrels(buf) * SizeofRelFileNode)

Children(buf) ==
    SubSeq(buf, ChildrenOff(buf) + 1, ChildrenOff(buf) + HdrNsubxacts(buf))

RelNodeList(buf, off, n) ==
    [i \in 1 .. n |-> buf[off + (i - 1) * SizeofRelFileNode + 3]]

CommitRelNodes(buf) == RelNodeList(buf, CommitRelsOff(buf), HdrNcommitrels(buf))

AbortRelNodes(buf) == RelNodeList(buf, AbortRelsOff(buf), HdrNabortrels(buf))

\* ReadTwoPhaseFile, lines 950-1042: the image, or << >> for NULL
ReadTwoPhaseFile(fs, xid) ==
    LET f == fs[xid]
        size == Len(f.bytes)
        crc_offset == size - SizeofCrc
    IN IF ~f.exists THEN << >>
       ELSE IF size < MAXALIGN(SizeofHeader) + MAXALIGN(SizeofRecordOnDisk) + SizeofCrc
               \/ size > MaxFileWords
       THEN << >>
       ELSE IF crc_offset # MAXALIGN(crc_offset) THEN << >>
       ELSE IF HdrMagic(f.bytes) # TWOPHASE_MAGIC \/ HdrTotalLen(f.bytes) # size
       THEN << >>
       ELSE IF StateFileCrc(SubSeq(f.bytes, 1, crc_offset)) # f.bytes[size]
       THEN << >>
       ELSE f.bytes

\* ReadTwoPhaseFile accepts the file
ValidOn(fs, xid) == ReadTwoPhaseFile(fs, xid) # << >>

\* ProcessRecords, lines 1153-1173: the rmgr records before the end sentinel,
\* as a sequence of [rmid, info, data]
RECURSIVE RecordList(_, _)
RecordList(buf, off) ==
    LET len == buf[off + 1]
        rmid == buf[off + 2] % 256
        info == buf[off + 2] \div 256
        dataoff == off + MAXALIGN(SizeofRecordOnDisk)
    IN IF rmid = TWOPHASE_RM_END_ID THEN << >>
       ELSE << [rmid |-> rmid, info |-> info,
                data |-> SubSeq(buf, dataoff + 1, dataoff + len)] >>
            \o RecordList(buf, dataoff + MAXALIGN(len))

\* ------------------------------------------------------------ backend steps
Goto(b, label) == pc' = [pc EXCEPT ![b] = label]

SetLocal(b, field, value) == bk' = [bk EXCEPT ![b][field] = value]

\* The command ends: the backend is idle and its xid is no longer active
EndCommand(b) ==
    /\ pc' = [pc EXCEPT ![b] = "idle"]
    /\ bk' = [bk EXCEPT ![b] = Fresh(b)]

\* ereport(ERROR) outside a critical section: the backend's transaction is
\* aborted and the command ends
AbortTransaction(b) == EndCommand(b)

\* ereport(ERROR) in the first call of a command: the error is raised and the
\* backend is on its way to AbortTransaction, with the xid it holds (if any)
ereport(b, err, gid, user, myxid) ==
    /\ pc' = [pc EXCEPT ![b] = "ERROR"]
    /\ bk' = [bk EXCEPT ![b] =
                 [Fresh(b) EXCEPT !.err = err, !.gid = gid, !.user = user,
                                 !.myxid = myxid]]

\* ------------------------------------------------------ TwoPhaseStateLock

\* LWLockAcquire(TwoPhaseStateLock, ...) returns once the lock is free: the
\* only holders a process can meet are backends on their way out of an
\* ERROR raised under the lock, and these hold it exclusively
LWLockFree == TwoPhaseStateLock = {}

LWLockAcquire(held, p) == held \cup {p}

LWLockRelease(held, p) == held \ {p}

\* The errors raised between LWLockAcquire and LWLockRelease:
\* MarkAsPreparing, lines 246 and 255 (and the Assert of line 286), and
\* LockGXact, lines 365 and 373.  Lines 211, 388, 430 and 606 are outside.
RaisedUnderLock(err) ==
    err \in {"duplicate_gid", "out_of_slots", "assertion_failed", "busy",
             "permission_denied"}

\* The lock after a registry operation of process p that ended with err:
\* acquired at its start, released before its return
LockAfter(p, err) ==
    LET held == LWLockAcquire(TwoPhaseStateLock, p)
    IN IF RaisedUnderLock(err) THEN held ELSE LWLockRelease(held, p)

\* The error is handled: the transaction is aborted (LWLockReleaseAll comes
\* first) and the command ends
AbortCurrentTransaction(b) ==
    /\ pc[b] = "ERROR"
    /\ EndCommand(b)
    /\ TwoPhaseStateLock' = LWLockRelease(TwoPhaseStateLock, b)
    /\ UNCHANGED << registry, procArray, nextXid, prescan, clog, clogDisk, walvars, ckpt,
                    ckptShared, files, disk, locks, unlinked, startup, hist >>

\* A GID one byte longer is still accepted
GidTooLong_offByOne(gid) == strlen(gid) > GIDSIZE

\* MarkAsPreparing, line 210: strlen(gid) >= GIDSIZE
GidTooLong(gid) == strlen(gid) >= GIDSIZE

\* PREPARE TRANSACTION gid: the transaction has its xid and subxids;
\* MarkAsPreparing checks the length of the GID and then, under
\* TwoPhaseStateLock, reserves the GID.  users are the users who may issue
\* the command, subs the numbers of subtransactions the transaction may have.
PrepareTransactionGid(b, gid, users, subs) ==
    /\ startup = "up"
    /\ pc[b] = "idle"
    /\ ncmds < MaxCommands
    /\ ncmds' = ncmds + 1
    /\ \E user \in users, nsub \in subs, nrels \in {NRels} :
          /\ nextXid + nsub <= MaxXid
          /\ LET xid == nextXid
                 r == MarkAsPreparing(Registry, xid, MyDatabaseId, gid, user)
             IN /\ nextXid' = nextXid + 1 + nsub
                /\ IF GidTooLong(gid)
                   THEN /\ ereport(b, "invalid_parameter", gid, user,
                                   InvalidTransactionId)
                        /\ UNCHANGED << registry, TwoPhaseStateLock, locks >>
                   ELSE IF r.err = "none"
                   THEN /\ LWLockFree
                        /\ SetRegistry(r.reg)
                        /\ TwoPhaseStateLock' = LockAfter(b, r.err)
                        /\ Goto(b, "StartPrepare")
                        /\ bk' = [bk EXCEPT ![b] =
                              [Fresh(b) EXCEPT !.myxid = xid, !.xid = xid,
                                 !.gid = gid, !.user = user, !.gx = r.slot,
                                 !.children = [i \in 1 .. nsub |-> xid + i],
                                 !.nrels = nrels]]
                        /\ locks' = locks \cup {xid}
                   ELSE /\ LWLockFree
                        /\ SetRegistry(r.reg)
                        /\ TwoPhaseStateLock' = LockAfter(b, r.err)
                        /\ ereport(b, r.err, gid, user, InvalidTransactionId)
                        /\ UNCHANGED locks
    /\ UNCHANGED << procArray, prescan, clog, clogDisk, walvars, ckpt, ckptShared,
                    files, disk, unlinked, startup, prepared, finishing,
                    crashes, committed, interrupted >>

\* The commands of the whole system are issued by the superuser, for
\* transactions with and without subtransactions
PrepareTransaction(b) ==
    \E gid \in Gids :
       PrepareTransactionGid(b, gid, Superusers, 0 .. MaxSubxacts)

\* StartPrepare, then the lock manager registers its record (AtPrepare_Locks)
StartPrepare(b) ==
    /\ pc[b] = "StartPrepare"
    /\ Goto(b, "EndPrepare")
    /\ SetLocal(b, "records",
          RegisterTwoPhaseRecord(
              StartPrepareRecords(bk[b].xid, bk[b].user, bk[b].gid,
                                  bk[b].children, bk[b].nrels),
              TWOPHASE_RM_LOCK_ID, 0, << bk[b].xid >>))
    /\ UNCHANGED << registry, TwoPhaseStateLock, procArray, nextXid, prescan,
                    clog, clogDisk, walvars, ckpt,
                    ckptShared, files, disk, locks, unlinked, startup, hist >>

\* The CRC written as computed, not inverted
BogusCrc_same(statefile_crc) == statefile_crc

\* EndPrepare, line 845: bogus_crc = ~statefile_crc
BogusCrc(statefile_crc) == BitNot(statefile_crc)

\* The state file opened without O_EXCL: a file that is there is written over
EndPrepare_create_overwrite(b) ==
    /\ pc[b] = "EndPrepare"
    /\ LET xid == bk[b].xid
           recs == EndPrepareRecords(bk[b].records)
           statefile_crc == StateFileCrc(recs)
           bogus_crc == BogusCrc(statefile_crc)
       IN \E io_ok \in BOOLEAN :
            IF ~io_ok
            THEN /\ AbortTransaction(b)
                 /\ locks' = locks \ {xid}
                 /\ files' = [files EXCEPT ![xid] =
                                 [exists |-> TRUE, bytes |-> recs]]
            ELSE /\ Goto(b, "EndPrepare_fsync")
                 /\ bk' = [bk EXCEPT ![b].records = recs,
                                      ![b].crc = statefile_crc]
                 /\ files' = [files EXCEPT ![xid] =
                                 [exists |-> TRUE,
                                  bytes |-> Append(recs, bogus_crc)]]
                 /\ UNCHANGED locks
    /\ UNCHANGED << registry, TwoPhaseStateLock, procArray, nextXid, prescan,
                    clog, clogDisk, walvars, ckpt,
                    ckptShared, disk, unlinked, startup, hist >>

\* EndPrepare, lines 790-853: sentinel, total_len, create the file with
\* O_EXCL, write the data and the inverted CRC
EndPrepare_create(b) ==
    /\ pc[b] = "EndPrepare"
    /\ LET xid == bk[b].xid
           recs == EndPrepareRecords(bk[b].records)
           statefile_crc == StateFileCrc(recs)
           bogus_crc == BogusCrc(statefile_crc)
       IN \E io_ok \in BOOLEAN :
            IF files[xid].exists
            THEN /\ AbortTransaction(b)
                 /\ locks' = locks \ {xid}
                 /\ UNCHANGED files
            ELSE IF ~io_ok
            THEN /\ AbortTransaction(b)
                 /\ locks' = locks \ {xid}
                 /\ files' = [files EXCEPT ![xid] =
                                 [exists |-> TRUE, bytes |-> recs]]
            ELSE /\ Goto(b, "EndPrepare_fsync")
                 /\ bk' = [bk EXCEPT ![b].records = recs,
                                      ![b].crc = statefile_crc]
                 /\ files' = [files EXCEPT ![xid] =
                                 [exists |-> TRUE,
                                  bytes |-> Append(recs, bogus_crc)]]
                 /\ UNCHANGED locks
    /\ UNCHANGED << registry, TwoPhaseStateLock, procArray, nextXid, prescan,
                    clog, clogDisk, walvars, ckpt,
                    ckptShared, disk, unlinked, startup, hist >>

\* EndPrepare without the first pg_fsync: the file with the bogus CRC is
\* written but not forced to disk
EndPrepare_fsync_skipped(b) ==
    /\ pc[b] = "EndPrepare_fsync"
    /\ \E io_ok \in BOOLEAN :
         IF io_ok
         THEN /\ Goto(b, "EndPrepare_crit")
              /\ UNCHANGED << bk, locks, disk >>
         ELSE /\ AbortTransaction(b)
              /\ locks' = locks \ {bk[b].xid}
              /\ UNCHANGED disk
    /\ UNCHANGED << registry, TwoPhaseStateLock, procArray, nextXid, prescan,
                    clog, clogDisk, walvars, ckpt,
                    ckptShared, files, unlinked, startup, hist >>

\* EndPrepare, lines 855-870: fsync the file with the bogus CRC, seek back
EndPrepare_fsync(b) ==
    /\ pc[b] = "EndPrepare_fsync"
    /\ \E io_ok \in BOOLEAN :
         IF io_ok
         THEN /\ Goto(b, "EndPrepare_crit")
              /\ disk' = [disk EXCEPT ![bk[b].xid] = files[bk[b].xid]]
              /\ UNCHANGED << bk, locks >>
         ELSE /\ AbortTransaction(b)
              /\ locks' = locks \ {bk[b].xid}
              /\ UNCHANGED disk
    /\ UNCHANGED << registry, TwoPhaseStateLock, procArray, nextXid, prescan,
                    clog, clogDisk, walvars, ckpt,
                    ckptShared, files, unlinked, startup, hist >>

\* EndPrepare entering the critical section without CheckpointStartLock
EndPrepare_crit_nolock(b) ==
    /\ pc[b] = "EndPrepare_crit"
    /\ Goto(b, "EndPrepare_XLogInsert")
    /\ UNCHANGED << registry, TwoPhaseStateLock, procArray, nextXid, prescan,
                    clog, clogDisk, walvars, ckpt,
                    ckptShared, files, disk, locks, unlinked, bk, startup, hist >>

\* EndPrepare, lines 888-890: START_CRIT_SECTION, CheckpointStartLock shared
EndPrepare_crit(b) ==
    /\ pc[b] = "EndPrepare_crit"
    /\ Goto(b, "EndPrepare_XLogInsert")
    /\ ckptShared' = ckptShared \cup {b}
    /\ UNCHANGED << registry, TwoPhaseStateLock, procArray, nextXid, prescan,
                    clog, clogDisk, walvars, ckpt,
                    files, disk, locks, unlinked, bk, startup, hist >>

\* EndPrepare, line 892: XLogInsert(RM_XACT_ID, XLOG_XACT_PREPARE, records)
EndPrepare_XLogInsert(b) ==
    /\ pc[b] = "EndPrepare_XLogInsert"
    /\ Goto(b, "EndPrepare_XLogFlush")
    /\ wal' = Append(wal, [type |-> "PREPARE", xid |-> bk[b].xid,
                           data |-> bk[b].records])
    /\ SetLocal(b, "recptr", Len(wal) + 1)
    /\ UNCHANGED << registry, TwoPhaseStateLock, procArray, nextXid, prescan,
                    clog, clogDisk, walFlushed,
                    redoPtr, ckpt, ckptShared, files, disk, locks, unlinked,
                    startup, hist >>

\* EndPrepare, line 893: XLogFlush(recptr)
EndPrepare_XLogFlush(b) ==
    /\ pc[b] = "EndPrepare_XLogFlush"
    /\ Goto(b, "EndPrepare_writeCrc")
    /\ walFlushed' = Max(walFlushed, bk[b].recptr)
    /\ UNCHANGED << registry, TwoPhaseStateLock, procArray, nextXid, prescan,
                    clog, clogDisk, wal, redoPtr,
                    ckpt, ckptShared, files, disk, locks, unlinked, bk, startup,
                    hist >>

\* EndPrepare, lines 898-904: write the correct CRC over the bogus one
EndPrepare_writeCrc(b) ==
    /\ pc[b] = "EndPrepare_writeCrc"
    /\ Goto(b, "EndPrepare_fsync2")
    /\ files' = [files EXCEPT ![bk[b].xid].bytes =
                     Append(bk[b].records, bk[b].crc)]
    /\ UNCHANGED << registry, TwoPhaseStateLock, procArray, nextXid, prescan,
                    clog, clogDisk, walvars, ckpt,
                    ckptShared, disk, locks, unlinked, bk, startup, hist >>

\* EndPrepare, lines 906-912: fsync the file with the correct CRC
EndPrepare_fsync2(b) ==
    /\ pc[b] = "EndPrepare_fsync2"
    /\ Goto(b, "EndPrepare_close")
    /\ disk' = [disk EXCEPT ![bk[b].xid] = files[bk[b].xid]]
    /\ UNCHANGED << registry, TwoPhaseStateLock, procArray, nextXid, prescan,
                    clog, clogDisk, walvars, ckpt,
                    ckptShared, files, locks, unlinked, bk, startup, hist >>

\* EndPrepare, lines 914-923: close, release CheckpointStartLock,
\* END_CRIT_SECTION, forget the records
EndPrepare_close(b) ==
    /\ pc[b] = "EndPrepare_close"
    /\ Goto(b, "MarkAsPrepared")
    /\ ckptShared' = ckptShared \ {b}
    /\ bk' = [bk EXCEPT ![b].records = << >>, ![b].crc = 0, ![b].recptr = 0]
    /\ UNCHANGED << registry, TwoPhaseStateLock, procArray, nextXid, prescan,
                    clog, clogDisk, walvars, ckpt,
                    files, disk, locks, unlinked, startup, hist >>

\* MarkAsPrepared with the lock released only after ProcArrayAdd
MarkAsPrepared_lockKept(b) ==
    /\ pc[b] = "MarkAsPrepared"
    /\ LWLockFree
    /\ Goto(b, "ProcArrayAdd")
    /\ gxacts' = [gxacts EXCEPT ![bk[b].gx].valid = TRUE]
    /\ TwoPhaseStateLock' = LWLockAcquire(TwoPhaseStateLock, b)
    /\ UNCHANGED << prepXacts, freeGXacts, procArray, nextXid, prescan, clog, clogDisk,
                    walvars, ckpt, ckptShared, files, disk, locks, unlinked, bk,
                    startup, hist >>

\* MarkAsPrepared, lines 328-331: valid = true under TwoPhaseStateLock
MarkAsPrepared(b) ==
    /\ pc[b] = "MarkAsPrepared"
    /\ LWLockFree
    /\ Goto(b, "ProcArrayAdd")
    /\ gxacts' = [gxacts EXCEPT ![bk[b].gx].valid = TRUE]
    /\ TwoPhaseStateLock' = LockAfter(b, "none")
    /\ UNCHANGED << prepXacts, freeGXacts, procArray, nextXid, prescan, clog, clogDisk,
                    walvars, ckpt, ckptShared, files, disk, locks, unlinked, bk,
                    startup, hist >>

\* MarkAsPrepared, line 337: ProcArrayAdd(&gxact->proc)
MarkAsPrepared_ProcArrayAdd(b) ==
    /\ pc[b] = "ProcArrayAdd"
    /\ Goto(b, "PostPrepare")
    /\ procArray' = procArray \cup {bk[b].gx}
    /\ UNCHANGED << registry, TwoPhaseStateLock, nextXid, prescan, clog, clogDisk, walvars, ckpt, ckptShared,
                    files, disk, locks, unlinked, bk, startup, hist >>

\* TwoPhaseGetDummyProc, lines 590-603, under TwoPhaseStateLock in shared
\* mode: the slot whose dummy PGPROC carries the xid, 0 for NULL
ScanForDummyProc(reg, xid) ==
    LET hits == { i \in DOMAIN reg.px : reg.gx[reg.px[i]].xid = xid }
    IN IF hits = {} THEN 0
       ELSE reg.px[CHOOSE i \in hits : \A j \in hits : i <= j]

\* TwoPhaseGetDummyProc, lines 575-612: a request for the xid of the last
\* answer is answered from the statics without a look at the registry
\* (lines 586-587); otherwise the registry is scanned, a miss is an error
\* (line 606) and a hit is remembered (lines 608-609)
TwoPhaseGetDummyProc(reg, cached_xid, cached_proc, xid) ==
    IF xid = cached_xid
    THEN [proc |-> cached_proc, cached_xid |-> cached_xid,
          cached_proc |-> cached_proc]
    ELSE LET result == ScanForDummyProc(reg, xid)
         IN IF result = 0
            THEN [proc |-> 0, cached_xid |-> cached_xid,
                  cached_proc |-> cached_proc]
            ELSE [proc |-> result, cached_xid |-> xid, cached_proc |-> result]

\* The statics of backend b after it asked for the dummy PGPROC of xid
DummyProcAsked(b, xid) ==
    LET r == TwoPhaseGetDummyProc(Registry, bk[b].cached_xid,
                                  bk[b].cached_proc, xid)
    IN [Fresh(b) EXCEPT !.cached_xid = r.cached_xid,
                        !.cached_proc = r.cached_proc]

\* PREPARE TRANSACTION returns: the backend's own PGPROC gives up the xid;
\* the locks go to the dummy PGPROC, which the lock manager asks
\* TwoPhaseGetDummyProc for (the registry is scanned, under the lock, only
\* when the statics do not answer); without a dummy PGPROC the command
\* fails (line 606)
PostPrepare(b) ==
    /\ pc[b] = "PostPrepare"
    /\ (bk[b].xid # bk[b].cached_xid) => LWLockFree
    /\ Goto(b, "idle")
    /\ bk' = [bk EXCEPT ![b] = DummyProcAsked(b, bk[b].xid)]
    /\ prepared' = IF TwoPhaseGetDummyProc(Registry, bk[b].cached_xid,
                                           bk[b].cached_proc, bk[b].xid).proc = 0
                   THEN prepared
                   ELSE prepared \cup { << bk[b].xid, bk[b].gid >> }
    /\ UNCHANGED << registry, TwoPhaseStateLock, procArray, nextXid, prescan,
                    clog, clogDisk, walvars, ckpt,
                    ckptShared, files, disk, locks, unlinked, startup, finishing,
                    crashes, ncmds, committed, interrupted >>

\* ------------------------------------------------------------------- finish

\* The scan taking a not-yet-valid entry as well
SkipGXact_validIgnored(e, gid) == e.gid # gid

\* LockGXact, lines 355-359: not-yet-valid entries and other GIDs are skipped
SkipGXact(e, gid) == ~e.valid \/ e.gid # gid

\* A locked entry handed out whoever holds it
GXactIsLocked_never(e) == FALSE

\* An entry taken as locked whenever it carries a locking_xid
GXactIsLocked_anyStamp(e) == TransactionIdIsValid(e.locking_xid)

\* LockGXact, lines 362-364: has someone else got it locked?
GXactIsLocked(e) ==
    TransactionIdIsValid(e.locking_xid) /\ TransactionIdIsActive(e.locking_xid)

\* Every caller allowed to finish the transaction
PermissionDenied_never(user, e) == FALSE

\* LockGXact, line 372: neither the owner nor a superuser
PermissionDenied(user, e) == user # e.owner /\ ~superuser_arg(user)

\* LockGXact stamping the entry with the caller's xid before the permission
\* check
RECURSIVE LockGXactScan_stampFirst(_, _, _, _, _)
LockGXactScan_stampFirst(i, reg, gid, user, myxid) ==
    IF i > Len(reg.px) THEN [err |-> "no_such_gid", reg |-> reg, slot |-> 0]
    ELSE LET g == reg.px[i]
             e == reg.gx[g]
         IN IF SkipGXact(e, gid)
            THEN LockGXactScan_stampFirst(i + 1, reg, gid, user, myxid)
            ELSE IF GXactIsLocked(e)
            THEN [err |-> "busy", reg |-> reg, slot |-> 0]
            ELSE LET stamped == [reg EXCEPT !.gx[g].locking_xid = myxid]
                 IN IF PermissionDenied(user, e)
                    THEN [err |-> "permission_denied", reg |-> stamped, slot |-> 0]
                    ELSE [err |-> "none", reg |-> stamped, slot |-> g]

\* LockGXact without the test of lines 362-368: the entry is taken over
\* whether the transaction that has stamped it is active or not
RECURSIVE LockGXactScan_noBusy(_, _, _, _, _)
LockGXactScan_noBusy(i, reg, gid, user, myxid) ==
    IF i > Len(reg.px) THEN [err |-> "no_such_gid", reg |-> reg, slot |-> 0]
    ELSE LET g == reg.px[i]
             e == reg.gx[g]
             cleared == [reg EXCEPT !.gx[g].locking_xid = InvalidTransactionId]
         IN IF SkipGXact(e, gid)
            THEN LockGXactScan_noBusy(i + 1, reg, gid, user, myxid)
            ELSE IF PermissionDenied(user, e)
            THEN [err |-> "permission_denied", reg |-> cleared, slot |-> 0]
            ELSE [err |-> "none",
                  reg |-> [reg EXCEPT !.gx[g].locking_xid = myxid],
                  slot |-> g]

\* LockGXact, lines 351-391, as a function of the registry: the first valid
\* entry with this GID decides.  A stale locking_xid is cleared before the
\* permission check.
RECURSIVE LockGXactScan(_, _, _, _, _)
LockGXactScan(i, reg, gid, user, myxid) ==
    IF i > Len(reg.px) THEN [err |-> "no_such_gid", reg |-> reg, slot |-> 0]
    ELSE LET g == reg.px[i]
             e == reg.gx[g]
         IN IF SkipGXact(e, gid)
            THEN LockGXactScan(i + 1, reg, gid, user, myxid)
            ELSE IF GXactIsLocked(e)
            THEN [err |-> "busy", reg |-> reg, slot |-> 0]
            ELSE LET cleared ==
                       [reg EXCEPT !.gx[g].locking_xid = InvalidTransactionId]
                 IN IF PermissionDenied(user, e)
                    THEN [err |-> "permission_denied", reg |-> cleared, slot |-> 0]
                    ELSE [err |-> "none",
                          reg |-> [reg EXCEPT !.gx[g].locking_xid = myxid],
                          slot |-> g]

LockGXact(reg, gid, user, myxid) == LockGXactScan(1, reg, gid, user, myxid)

\* COMMIT PREPARED gid / ROLLBACK PREPARED gid, lines 1061-1066: the command
\* runs in a transaction of its own; LockGXact locks the gxact.  users are
\* the users who may issue the command.
FinishPreparedTransactionGid(b, gid, users) ==
    /\ startup = "up"
    /\ pc[b] = "idle"
    /\ nextXid <= MaxXid
    /\ ncmds < MaxCommands
    /\ ncmds' = ncmds + 1
    /\ \E user \in users, isCommit \in BOOLEAN :
          LET myxid == nextXid
              r == LockGXact(Registry, gid, user, myxid)
          IN /\ nextXid' = nextXid + 1
             /\ LWLockFree
             /\ SetRegistry(r.reg)
             /\ TwoPhaseStateLock' = LockAfter(b, r.err)
             /\ IF r.err = "none"
                THEN /\ Goto(b, "ReadTwoPhaseFile")
                     /\ bk' = [bk EXCEPT ![b] =
                           [Fresh(b) EXCEPT !.myxid = myxid, !.gid = gid,
                              !.user = user, !.isCommit = isCommit,
                              !.gx = r.slot, !.xid = gxacts[r.slot].xid,
                              !.stale = gxacts[r.slot].locking_xid]]
                ELSE ereport(b, r.err, gid, user, InvalidTransactionId)
    /\ UNCHANGED << procArray, prescan, clog, clogDisk, walvars, ckpt, ckptShared,
                    files, disk, locks, unlinked, startup, prepared, finishing,
                    crashes, committed, interrupted >>

FinishPreparedTransaction(b) ==
    \E gid \in Gids : FinishPreparedTransactionGid(b, gid, Superusers)

\* FinishPreparedTransaction giving the gxact up when the file cannot be read
Finish_ReadTwoPhaseFile_giveUp(b) ==
    /\ pc[b] = "ReadTwoPhaseFile"
    /\ \E io_ok \in BOOLEAN :
         LET buf == IF io_ok THEN ReadTwoPhaseFile(files, bk[b].xid) ELSE << >>
         IN IF buf = << >>
            THEN /\ ereport(b, "data_corrupted", bk[b].gid, bk[b].user,
                            bk[b].myxid)
                 /\ gxacts' = [gxacts EXCEPT ![bk[b].gx].valid = FALSE]
                 /\ UNCHANGED << prepXacts, freeGXacts, TwoPhaseStateLock >>
            ELSE /\ Goto(b, IF bk[b].isCommit THEN "Commit_crit"
                            ELSE "Abort_XLogInsert")
                 /\ SetLocal(b, "buf", buf)
                 /\ UNCHANGED << registry, TwoPhaseStateLock >>
    /\ UNCHANGED << procArray, nextXid, prescan, clog, clogDisk, walvars, ckpt,
                    ckptShared, files, disk, locks, unlinked, startup, hist >>

\* FinishPreparedTransaction, lines 1071-1089: read and validate the file;
\* ReadTwoPhaseFile also returns NULL when open, fstat or read fails
Finish_ReadTwoPhaseFile(b) ==
    /\ pc[b] = "ReadTwoPhaseFile"
    /\ \E io_ok \in BOOLEAN :
         LET buf == IF io_ok THEN ReadTwoPhaseFile(files, bk[b].xid) ELSE << >>
         IN IF buf = << >>
            THEN ereport(b, "data_corrupted", bk[b].gid, bk[b].user,
                         bk[b].myxid)
            ELSE /\ Goto(b, IF bk[b].isCommit THEN "Commit_crit"
                            ELSE "Abort_XLogInsert")
                 /\ SetLocal(b, "buf", buf)
    /\ UNCHANGED << registry, TwoPhaseStateLock, procArray, nextXid, prescan,
                    clog, clogDisk, walvars, ckpt,
                    ckptShared, files, disk, locks, unlinked, startup, hist >>

FinishRecord(b, type) ==
    [type |-> type, xid |-> bk[b].xid, children |-> Children(bk[b].buf),
     rels |-> IF bk[b].isCommit THEN CommitRelNodes(bk[b].buf)
              ELSE AbortRelNodes(bk[b].buf)]

SetClog(xids, status) ==
    clog' = [x \in AllXids |-> IF x \in xids THEN status ELSE clog[x]]

\* RecordTransactionCommitPrepared, lines 1532-1535
RecordTransactionCommitPrepared_crit(b) ==
    /\ pc[b] = "Commit_crit"
    /\ Goto(b, "Commit_XLogInsert")
    /\ ckptShared' = ckptShared \cup {b}
    /\ UNCHANGED << registry, TwoPhaseStateLock, procArray, nextXid, prescan,
                    clog, clogDisk, walvars, ckpt,
                    files, disk, locks, unlinked, bk, startup, hist >>

\* RecordTransactionCommitPrepared, lines 1537-1567
RecordTransactionCommitPrepared_XLogInsert(b) ==
    /\ pc[b] = "Commit_XLogInsert"
    /\ Goto(b, "Commit_XLogFlush")
    /\ wal' = Append(wal, FinishRecord(b, "COMMIT_PREPARED"))
    /\ finishing' = finishing \cup {bk[b].xid}
    /\ SetLocal(b, "recptr", Len(wal) + 1)
    /\ UNCHANGED << registry, TwoPhaseStateLock, procArray, nextXid, prescan,
                    clog, clogDisk, walFlushed,
                    redoPtr, ckpt, ckptShared, files, disk, locks, unlinked,
                    startup, prepared, crashes, ncmds, committed, interrupted >>

\* RecordTransactionCommitPrepared going on without XLogFlush
RecordTransactionCommitPrepared_XLogFlush_skipped(b) ==
    /\ pc[b] = "Commit_XLogFlush"
    /\ Goto(b, "Commit_clog")
    /\ UNCHANGED << registry, TwoPhaseStateLock, procArray, nextXid, prescan,
                    clog, clogDisk, walvars,
                    ckpt, ckptShared, files, disk, locks, unlinked, bk, startup,
                    hist >>

\* RecordTransactionCommitPrepared, line 1572
RecordTransactionCommitPrepared_XLogFlush(b) ==
    /\ pc[b] = "Commit_XLogFlush"
    /\ Goto(b, "Commit_clog")
    /\ walFlushed' = Max(walFlushed, bk[b].recptr)
    /\ UNCHANGED << registry, TwoPhaseStateLock, procArray, nextXid, prescan,
                    clog, clogDisk, wal, redoPtr,
                    ckpt, ckptShared, files, disk, locks, unlinked, bk, startup,
                    hist >>

\* RecordTransactionCommitPrepared marking the children committed first
RecordTransactionCommitPrepared_clog_childrenFirst(b) ==
    /\ pc[b] = "Commit_clog"
    /\ Goto(b, "Commit_clogTree")
    /\ SetClog(Range(Children(bk[b].buf)), XCOMMITTED)
    /\ UNCHANGED << registry, TwoPhaseStateLock, procArray, nextXid, prescan, clogDisk, walvars, ckpt,
                    ckptShared, files, disk, locks, unlinked, bk, startup, hist >>

\* RecordTransactionCommitPrepared, line 1575: TransactionIdCommit(xid)
RecordTransactionCommitPrepared_clog(b) ==
    /\ pc[b] = "Commit_clog"
    /\ Goto(b, "Commit_clogTree")
    /\ SetClog({bk[b].xid}, XCOMMITTED)
    /\ UNCHANGED << registry, TwoPhaseStateLock, procArray, nextXid, prescan, clogDisk, walvars, ckpt,
                    ckptShared, files, disk, locks, unlinked, bk, startup, hist >>

\* RecordTransactionCommitPrepared, line 1577: TransactionIdCommitTree
RecordTransactionCommitPrepared_clogTree(b) ==
    /\ pc[b] = "Commit_clogTree"
    /\ Goto(b, "Commit_end")
    /\ SetClog(Range(Children(bk[b].buf)), XCOMMITTED)
    /\ UNCHANGED << registry, TwoPhaseStateLock, procArray, nextXid, prescan, clogDisk, walvars, ckpt,
                    ckptShared, files, disk, locks, unlinked, bk, startup, hist >>

\* RecordTransactionCommitPrepared, lines 1580-1582
RecordTransactionCommitPrepared_end(b) ==
    /\ pc[b] = "Commit_end"
    /\ Goto(b, "ProcArrayRemove")
    /\ ckptShared' = ckptShared \ {b}
    /\ UNCHANGED << registry, TwoPhaseStateLock, procArray, nextXid, prescan,
                    clog, clogDisk, walvars, ckpt,
                    files, disk, locks, unlinked, bk, startup, hist >>

\* RecordTransactionAbortPrepared, lines 1609-1645: PANIC if the transaction
\* is already committed; otherwise START_CRIT_SECTION and the abort record
RecordTransactionAbortPrepared_XLogInsert(b) ==
    /\ pc[b] = "Abort_XLogInsert"
    /\ IF TransactionIdDidCommit(bk[b].xid)
       THEN /\ Goto(b, "PANIC")
            /\ UNCHANGED << wal, bk, finishing >>
       ELSE /\ Goto(b, "Abort_XLogFlush")
            /\ wal' = Append(wal, FinishRecord(b, "ABORT_PREPARED"))
            /\ finishing' = finishing \cup {bk[b].xid}
            /\ SetLocal(b, "recptr", Len(wal) + 1)
    /\ UNCHANGED << registry, TwoPhaseStateLock, procArray, nextXid, prescan,
                    clog, clogDisk, walFlushed,
                    redoPtr, ckpt, ckptShared, files, disk, locks, unlinked,
                    startup, prepared, crashes, ncmds, committed, interrupted >>

\* The dummy PGPROC taken out of the ProcArray once the abort record is
\* flushed, before pg_clog is updated
RecordTransactionAbortPrepared_XLogFlush_procRemoved(b) ==
    /\ pc[b] = "Abort_XLogFlush"
    /\ Goto(b, "Abort_clog")
    /\ walFlushed' = Max(walFlushed, bk[b].recptr)
    /\ procArray' = procArray \ {bk[b].gx}
    /\ UNCHANGED << registry, TwoPhaseStateLock, nextXid, prescan, clog, clogDisk, wal, redoPtr,
                    ckpt, ckptShared, files, disk, locks, unlinked, bk, startup,
                    hist >>

\* RecordTransactionAbortPrepared, line 1648
RecordTransactionAbortPrepared_XLogFlush(b) ==
    /\ pc[b] = "Abort_XLogFlush"
    /\ Goto(b, "Abort_clog")
    /\ walFlushed' = Max(walFlushed, bk[b].recptr)
    /\ UNCHANGED << registry, TwoPhaseStateLock, procArray, nextXid, prescan,
                    clog, clogDisk, wal, redoPtr,
                    ckpt, ckptShared, files, disk, locks, unlinked, bk, startup,
                    hist >>

\* RecordTransactionAbortPrepared, line 1654: TransactionIdAbort(xid)
RecordTransactionAbortPrepared_clog(b) ==
    /\ pc[b] = "Abort_clog"
    /\ Goto(b, "Abort_clogTree")
    /\ SetClog({bk[b].xid}, XABORTED)
    /\ UNCHANGED << registry, TwoPhaseStateLock, procArray, nextXid, prescan, clogDisk, walvars, ckpt,
                    ckptShared, files, disk, locks, unlinked, bk, startup, hist >>

\* RecordTransactionAbortPrepared, lines 1655-1657: TransactionIdAbortTree,
\* END_CRIT_SECTION
RecordTransactionAbortPrepared_clogTree(b) ==
    /\ pc[b] = "Abort_clogTree"
    /\ Goto(b, "ProcArrayRemove")
    /\ SetClog(Range(Children(bk[b].buf)), XABORTED)
    /\ UNCHANGED << registry, TwoPhaseStateLock, procArray, nextXid, prescan, clogDisk, walvars, ckpt,
                    ckptShared, files, disk, locks, unlinked, bk, startup, hist >>

\* FinishPreparedTransaction, line 1108
Finish_ProcArrayRemove(b) ==
    /\ pc[b] = "ProcArrayRemove"
    /\ Goto(b, "Invalidate")
    /\ procArray' = procArray \ {bk[b].gx}
    /\ UNCHANGED << registry, TwoPhaseStateLock, nextXid, prescan, clog, clogDisk, walvars, ckpt, ckptShared,
                    files, disk, locks, unlinked, bk, startup, hist >>

\* FinishPreparedTransaction going on to the callbacks with the gxact still
\* valid
Finish_Invalidate_skipped(b) ==
    /\ pc[b] = "Invalidate"
    /\ Goto(b, "ProcessRecords")
    /\ UNCHANGED << registry, TwoPhaseStateLock, procArray, nextXid, prescan,
                    clog, clogDisk, walvars, ckpt, ckptShared, files, disk,
                    locks, unlinked, bk, startup, hist >>

\* FinishPreparedTransaction, line 1115: gxact->valid = false (the gxact is
\* locked by this backend; TwoPhaseStateLock is not taken)
Finish_Invalidate(b) ==
    /\ pc[b] = "Invalidate"
    /\ Goto(b, "ProcessRecords")
    /\ gxacts' = [gxacts EXCEPT ![bk[b].gx].valid = FALSE]
    /\ UNCHANGED << prepXacts, freeGXacts, TwoPhaseStateLock, procArray, nextXid, prescan, clog, clogDisk,
                    walvars, ckpt, ckptShared, files, disk, locks, unlinked, bk,
                    startup, hist >>

\* The post-commit and post-abort callbacks of the lock manager release the
\* locks of the prepared transaction; the recover callback takes them again
RECURSIVE RunCallbacks(_, _, _, _)
RunCallbacks(recs, xid, table, held) ==
    IF recs = << >> THEN held
    ELSE LET r == Head(recs)
             after == IF r.rmid # TWOPHASE_RM_LOCK_ID THEN held
                      ELSE IF table = "recover" THEN held \cup {xid}
                      ELSE held \ {xid}
         IN RunCallbacks(Tail(recs), xid, table, after)

\* twophase_postcommit_callbacks, twophase_postabort_callbacks and
\* twophase_recover_callbacks: the rmids whose entry is not NULL
NonNullCallbacks(table) ==
    IF table = "postcommit" THEN {TWOPHASE_RM_LOCK_ID, TWOPHASE_RM_INVAL_ID}
    ELSE {TWOPHASE_RM_LOCK_ID}

\* ProcessRecords calling whatever the table holds for the rmid
RECURSIVE ProcessRecordsCalls_nullNotSkipped(_, _, _)
ProcessRecordsCalls_nullNotSkipped(recs, xid, table) ==
    IF recs = << >> THEN << >>
    ELSE LET r == Head(recs)
         IN << [table |-> table, xid |-> xid, rmid |-> r.rmid,
                info |-> r.info, data |-> r.data] >>
            \o ProcessRecordsCalls_nullNotSkipped(Tail(recs), xid, table)

\* ProcessRecords, lines 1168-1170: the calls made, in order; a record whose
\* rmid has no callback in the table is passed over
RECURSIVE ProcessRecordsCalls(_, _, _)
ProcessRecordsCalls(recs, xid, table) ==
    IF recs = << >> THEN << >>
    ELSE LET r == Head(recs)
         IN (IF r.rmid \in NonNullCallbacks(table)
             THEN << [table |-> table, xid |-> xid, rmid |-> r.rmid,
                      info |-> r.info, data |-> r.data] >>
             ELSE << >>)
            \o ProcessRecordsCalls(Tail(recs), xid, table)

\* ProcessRecords, lines 1153-1173
ProcessRecords(buf, xid, table, held) ==
    RunCallbacks(RecordList(buf, RecordsOff(buf)), xid, table, held)

\* FinishPreparedTransaction, lines 1117-1120; a callback may raise an ERROR
Finish_ProcessRecords(b) ==
    /\ pc[b] = "ProcessRecords"
    /\ \E cb_ok \in BOOLEAN :
         IF cb_ok
         THEN /\ Goto(b, "smgrdounlink")
              /\ locks' = ProcessRecords(bk[b].buf, bk[b].xid,
                              IF bk[b].isCommit THEN "postcommit" ELSE "postabort",
                              locks)
              /\ LET calls == ProcessRecordsCalls(
                        RecordList(bk[b].buf, RecordsOff(bk[b].buf)), bk[b].xid,
                        IF bk[b].isCommit THEN "postcommit" ELSE "postabort")
                     asked == \E i \in DOMAIN calls :
                                 calls[i].rmid = TWOPHASE_RM_LOCK_ID
                     r == TwoPhaseGetDummyProc(Registry, bk[b].cached_xid,
                                               bk[b].cached_proc, bk[b].xid)
                 IN /\ (asked /\ bk[b].xid # bk[b].cached_xid) => LWLockFree
                    /\ bk' = [bk EXCEPT ![b].calls = calls,
                                ![b].cached_xid =
                                    IF asked THEN r.cached_xid ELSE @,
                                ![b].cached_proc =
                                    IF asked THEN r.cached_proc ELSE @]
         ELSE /\ AbortTransaction(b)
              /\ UNCHANGED locks
    /\ UNCHANGED << registry, TwoPhaseStateLock, procArray, nextXid, prescan,
                    clog, clogDisk, walvars, ckpt,
                    ckptShared, files, disk, unlinked, startup, hist >>

\* FinishPreparedTransaction, lines 1126-1137
Finish_smgrdounlink(b) ==
    /\ pc[b] = "smgrdounlink"
    /\ Goto(b, "RemoveTwoPhaseFile")
    /\ unlinked' = unlinked \cup
          Range(IF bk[b].isCommit THEN CommitRelNodes(bk[b].buf)
                ELSE AbortRelNodes(bk[b].buf))
    /\ UNCHANGED << registry, TwoPhaseStateLock, procArray, nextXid, prescan,
                    clog, clogDisk, walvars, ckpt,
                    ckptShared, files, disk, locks, bk, startup, hist >>

\* RemoveTwoPhaseFile, lines 1181-1193: unlink (a missing file is a warning)
RemoveTwoPhaseFile(fs, xid) == [fs EXCEPT ![xid] = NoFile]

\* FinishPreparedTransaction, line 1142
Finish_RemoveTwoPhaseFile(b) ==
    /\ pc[b] = "RemoveTwoPhaseFile"
    /\ Goto(b, "RemoveGXact")
    /\ files' = RemoveTwoPhaseFile(files, bk[b].xid)
    /\ disk' = RemoveTwoPhaseFile(disk, bk[b].xid)
    /\ UNCHANGED << registry, TwoPhaseStateLock, procArray, nextXid, prescan,
                    clog, clogDisk, walvars, ckpt,
                    ckptShared, locks, unlinked, bk, startup, hist >>

\* RemoveGXact, lines 403-431, as a function of the registry
RemoveGXact(reg, g) ==
    [reg EXCEPT !.px = RemoveFromArray(reg.px, g), !.fr = << g >> \o reg.fr]

\* FinishPreparedTransaction, lines 1144-1147: RemoveGXact, then the command
\* and its transaction end
Finish_RemoveGXact(b) ==
    /\ pc[b] = "RemoveGXact"
    /\ LWLockFree
    /\ IF \E i \in DOMAIN prepXacts : prepXacts[i] = bk[b].gx
       THEN /\ SetRegistry(RemoveGXact(Registry, bk[b].gx))
            /\ TwoPhaseStateLock' = LockAfter(b, "none")
            /\ EndCommand(b)
            /\ committed' = IF bk[b].isCommit THEN committed \cup {bk[b].xid}
                            ELSE committed
       ELSE /\ AbortTransaction(b)
            /\ UNCHANGED << registry, TwoPhaseStateLock, committed >>
    /\ UNCHANGED << procArray, nextXid, prescan, clog, clogDisk, walvars, ckpt,
                    ckptShared, files, disk, locks, unlinked, startup, prepared,
                    finishing, crashes, ncmds, interrupted >>

\* --------------------------------------------------------------- checkpoint

\* CreateCheckPoint takes CheckpointStartLock exclusively while it fixes the
\* redo pointer (and the nextXid it will record)
CheckpointStart ==
    /\ startup = "up"
    /\ ckpt.pc = "idle"
    /\ ckpt.n < MaxCheckpoints
    /\ ckptShared = {}
    /\ ckpt' = [ckpt EXCEPT !.pc = "started", !.redo = Len(wal) + 1,
                            !.nextXid = nextXid, !.n = ckpt.n + 1]
    /\ UNCHANGED << registry, TwoPhaseStateLock, procArray, nextXid, prescan,
                    clog, clogDisk, walvars,
                    ckptShared, files, disk, locks, unlinked, pc, bk, startup,
                    hist >>

\* The checkpoint writes pg_clog, flushes the WAL and moves the redo pointer
CheckpointComplete ==
    /\ startup = "up"
    /\ ckpt.pc = "started"
    /\ clogDisk' = clog
    /\ walFlushed' = Len(wal)
    /\ redoPtr' = ckpt.redo
    /\ ckpt' = [ckpt EXCEPT !.pc = "idle", !.ctlNextXid = ckpt.nextXid]
    /\ UNCHANGED << registry, TwoPhaseStateLock, procArray, nextXid, prescan, clog, wal, ckptShared, files,
                    disk, locks, unlinked, pc, bk, startup, hist >>

\* -------------------------------------------------------- crash and startup

\* Does this WAL hold a PREPARE record of the xid?
\* --------------------------------------------------------- pg_prepared_xact

\* GetPreparedTransactionList, lines 445-472: under TwoPhaseStateLock, copies
\* of the gxacts of the array, fully prepared or not
GetPreparedTransactionList(reg) ==
    [i \in 1 .. Len(reg.px) |-> reg.gx[reg.px[i]]]

\* Every gxact of the list makes a row
RowWanted_all(gxact) == TRUE

\* pg_prepared_xact, lines 548-549: if (!gxact->valid) continue
RowWanted(gxact) == gxact.valid

\* pg_prepared_xact, lines 557-560: the four columns
PreparedXactRow(gxact) ==
    [transaction |-> gxact.xid, gid |-> gxact.gid, ownerid |-> gxact.owner,
     dbid |-> gxact.databaseId]

\* pg_prepared_xact, lines 540-567, one call: the next row, or done
RECURSIVE PerCall(_, _)
PerCall(array, currIdx) ==
    IF ~(currIdx < Len(array))
    THEN [currIdx |-> currIdx, done |-> TRUE, row |-> << >>]
    ELSE IF ~RowWanted(array[currIdx + 1]) THEN PerCall(array, currIdx + 1)
    ELSE [currIdx |-> currIdx + 1, done |-> FALSE,
          row |-> << PreparedXactRow(array[currIdx + 1]) >>]

\* The first call takes the list and returns the first row (or is done)
pg_prepared_xact_firstcall(b) ==
    /\ startup = "up"
    /\ pc[b] = "idle"
    /\ ncmds < MaxCommands
    /\ ncmds' = ncmds + 1
    /\ LWLockFree
    /\ LET array == GetPreparedTransactionList(Registry)
           st == PerCall(array, 0)
       IN /\ Goto(b, IF st.done THEN "SRF_DONE" ELSE "pg_prepared_xact")
          /\ bk' = [bk EXCEPT ![b] =
                [Fresh(b) EXCEPT !.array = array, !.currIdx = st.currIdx,
                                !.rows = st.row]]
    /\ UNCHANGED << registry, TwoPhaseStateLock, procArray, nextXid, prescan,
                    clog, clogDisk,
                    walvars, ckpt, ckptShared, files, disk, locks, unlinked,
                    startup, prepared, finishing, crashes, committed,
                    interrupted >>

\* A later call returns the next row of the list (or is done)
pg_prepared_xact_percall(b) ==
    /\ startup = "up"
    /\ pc[b] = "pg_prepared_xact"
    /\ LET st == PerCall(bk[b].array, bk[b].currIdx)
       IN /\ Goto(b, IF st.done THEN "SRF_DONE" ELSE "pg_prepared_xact")
          /\ bk' = [bk EXCEPT ![b].currIdx = st.currIdx,
                              ![b].rows = bk[b].rows \o st.row]
    /\ UNCHANGED << registry, TwoPhaseStateLock, procArray, nextXid, prescan,
                    clog, clogDisk,
                    walvars, ckpt, ckptShared, files, disk, locks, unlinked,
                    startup, hist >>

\* The result set is complete: the query ends
pg_prepared_xact_done(b) ==
    /\ startup = "up"
    /\ pc[b] = "SRF_DONE"
    /\ EndCommand(b)
    /\ UNCHANGED << registry, TwoPhaseStateLock, procArray, nextXid, prescan,
                    clog, clogDisk,
                    walvars, ckpt, ckptShared, files, disk, locks, unlinked,
                    startup, hist >>

HasPrepare(w, xid) ==
    \E i \in DOMAIN w : w[i].type = "PREPARE" /\ w[i].xid = xid

\* The positions of a backend inside PREPARE TRANSACTION up to the fsync of
\* the correct CRC
PrepareSteps ==
    {"StartPrepare", "EndPrepare", "EndPrepare_fsync", "EndPrepare_crit",
     "EndPrepare_XLogInsert", "EndPrepare_XLogFlush", "EndPrepare_writeCrc",
     "EndPrepare_fsync2"}

\* A crash (or PANIC): shared memory and the backends are gone, a checkpoint
\* in progress is abandoned with the redo pointer it had fixed; the WAL keeps
\* at least what was flushed; a file keeps its fsynced or its written content.
\* interrupted remembers what the crash cut short: unlogged, the PREPAREs
\* whose record is not in the surviving WAL (leftover: those of them that
\* leave a state file); logged, the PREPAREs past XLogFlush whose file on
\* disk has no correct CRC; committing, the xids whose COMMIT
\* PREPARED record survived while the file or the entry was still there;
\* ncmds, the number of commands started before the crash.
Crash ==
    /\ crashes < MaxCrashes
    /\ crashes' = crashes + 1
    /\ \E k \in walFlushed .. Len(wal) :
          /\ wal' = SubSeq(wal, 1, k)
          /\ walFlushed' = k
    /\ \E lost \in SUBSET { x \in AllXids : files[x] # disk[x] } :
          /\ files' = [x \in AllXids |-> IF x \in lost THEN disk[x] ELSE files[x]]
          /\ disk' = files'
    /\ clog' = clogDisk
    /\ prepXacts' = << >>
    /\ freeGXacts' = InitFreeList(max_prepared_xacts)
    /\ gxacts' = [s \in Slots |-> EmptyGXact]
    /\ TwoPhaseStateLock' = {}
    /\ procArray' = {}
    /\ locks' = {}
    /\ ckptShared' = {}
    /\ ckpt' = [ckpt EXCEPT !.pc = "idle", !.redo = redoPtr]
    /\ pc' = [b \in Backends |-> "idle"]
    /\ bk' = [b \in Backends |-> NoLocal]
    /\ startup' = "redo"
    /\ interrupted' =
          [unlogged |-> { bk[b].xid : b \in { c \in Backends :
                              /\ pc[c] \in PrepareSteps
                              /\ ~HasPrepare(wal', bk[c].xid) } },
           leftover |-> { bk[b].xid : b \in { c \in Backends :
                              /\ pc[c] \in PrepareSteps
                              /\ ~HasPrepare(wal', bk[c].xid)
                              /\ files'[bk[c].xid].exists } },
           logged |-> { << bk[b].xid, bk[b].gid >> : b \in { c \in Backends :
                              /\ pc[c] \in {"EndPrepare_writeCrc",
                                             "EndPrepare_fsync2"}
                              /\ ReadTwoPhaseFile(disk', bk[c].xid) = << >> } },
           committing |-> { x \in Xids :
                              /\ \E i \in DOMAIN wal' :
                                    /\ wal'[i].type = "COMMIT_PREPARED"
                                    /\ wal'[i].xid = x
                              /\ \/ files[x].exists
                                 \/ \E i \in DOMAIN prepXacts :
                                       gxacts[prepXacts[i]].xid = x },
           ncmds |-> ncmds]
    /\ UNCHANGED << nextXid, prescan, clogDisk, redoPtr, unlinked, prepared, finishing,
                    ncmds, committed >>

\* The positions of a backend inside a critical section with I/O ahead: the
\* WAL insert and flush, the CRC write, fsync and close of EndPrepare, and
\* the WAL insert and flush and the clog updates of the two finish records
CritSectionIO ==
    {"EndPrepare_XLogInsert", "EndPrepare_XLogFlush", "EndPrepare_writeCrc",
     "EndPrepare_fsync2", "EndPrepare_close",
     "Commit_XLogInsert", "Commit_XLogFlush", "Commit_clog", "Commit_clogTree",
     "Abort_XLogFlush", "Abort_clog", "Abort_clogTree"}

\* The I/O failure reported as the ERROR it is written as: the backend
\* leaves the critical section, releases CheckpointStartLock and goes on to
\* abort its transaction
CritSection_ERROR(b) ==
    /\ startup = "up"
    /\ pc[b] \in CritSectionIO
    /\ ereport(b, "io_error", bk[b].gid, bk[b].user, InvalidTransactionId)
    /\ ckptShared' = ckptShared \ {b}
    /\ UNCHANGED << registry, TwoPhaseStateLock, procArray, nextXid, prescan,
                    clog, clogDisk, walvars, ckpt,
                    files, disk, locks, unlinked, startup, hist >>

\* An I/O failure inside a critical section: ereport(ERROR) with
\* CritSectionCount > 0 is a PANIC, the server crashes and restarts
CritSection_PANIC(b) ==
    /\ startup = "up"
    /\ pc[b] \in CritSectionIO
    /\ Crash

\* RecreateTwoPhaseFile, lines 1200-1252: content, then its CRC, fsynced
RecreateTwoPhaseFile(fs, xid, content) ==
    [fs EXCEPT ![xid] =
        [exists |-> TRUE, bytes |-> Append(content, StateFileCrc(content))]]

\* xact_redo of one record.  st is [files, clog, unlinked, maxxid].
RedoRecord(st, r) ==
    IF r.type = "PREPARE"
    THEN [st EXCEPT !.files = RecreateTwoPhaseFile(st.files, r.xid, r.data),
                    !.maxxid = Max(st.maxxid, r.xid)]
    ELSE LET tree == {r.xid} \cup Range(r.children)
             status == IF r.type = "COMMIT_PREPARED" THEN XCOMMITTED ELSE XABORTED
         IN [files |-> RemoveTwoPhaseFile(st.files, r.xid),
             clog |-> [x \in AllXids |-> IF x \in tree THEN status ELSE st.clog[x]],
             unlinked |-> st.unlinked \cup Range(r.rels),
             maxxid |-> Max(st.maxxid, Max(r.xid, SeqMax(r.children)))]

RECURSIVE RedoLoop(_, _)
RedoLoop(i, st) ==
    IF i > Len(wal) THEN st ELSE RedoLoop(i + 1, RedoRecord(st, wal[i]))

\* WAL replay from the redo pointer; nextXid becomes one more than the
\* highest xid for which evidence exists in the WAL
StartupRedo ==
    /\ startup = "redo"
    /\ LET st == RedoLoop(redoPtr, [files |-> files, clog |-> clog,
                                    unlinked |-> unlinked, maxxid |-> 0])
       IN /\ files' = st.files
          /\ disk' = st.files
          /\ clog' = st.clog
          /\ unlinked' = st.unlinked
          /\ nextXid' = Max(ckpt.ctlNextXid, st.maxxid + 1)
    /\ startup' = "prescan"
    /\ UNCHANGED << registry, TwoPhaseStateLock, procArray, prescan, clogDisk, walvars, ckpt, ckptShared,
                    locks, pc, bk, hist >>

\* The largest signed 32-bit value (a TransactionId is written as the signed
\* value of its bit pattern: -MaxInt32 - 1 .. MaxInt32)
MaxInt32 == 2147483647

\* TransactionIdFollowsOrEquals / TransactionIdPrecedes: the sign of the
\* 32-bit difference id1 - id2.  For xids of one sign the difference does
\* not wrap; for xids of different signs it is computed without leaving the
\* 32 bits: with id2 < 0 <= id1 it is not negative iff id1 - id2 <= MaxInt32,
\* with id1 < 0 <= id2 it wraps to a positive value iff
\* id1 - id2 < -MaxInt32 - 1
TransactionIdFollowsOrEquals(id1, id2) ==
    IF (id1 >= 0) = (id2 >= 0) THEN id1 - id2 >= 0
    ELSE IF id1 >= 0 THEN id1 <= MaxInt32 + id2
    ELSE id1 + 1 < id2 - MaxInt32

\* TransactionIdAdvance: the next xid, 32 bits wide (the special xids below
\* FirstNormalTransactionId are not told apart here: xids count from 1)
TransactionIdAdvance(xid) ==
    IF xid = MaxInt32 THEN (-MaxInt32) - 1 ELSE xid + 1

TransactionIdPrecedes(id1, id2) == ~TransactionIdFollowsOrEquals(id1, id2)

\* The directory entries of pg_twophase, in every order readdir may give
ExistingFiles(fs) == { x \in AllXids : fs[x].exists }

RECURSIVE Orders(_)
Orders(S) ==
    IF S = {} THEN { << >> }
    ELSE UNION { { << x >> \o o : o \in Orders(S \ {x}) } : x \in S }

\* nextXid set to the subxid, without TransactionIdAdvance
RECURSIVE AdvancePastSubxids_notAdvanced(_, _)
AdvancePastSubxids_notAdvanced(next, subxids) ==
    IF subxids = << >> THEN next
    ELSE AdvancePastSubxids_notAdvanced(
             IF TransactionIdFollowsOrEquals(Head(subxids), next)
             THEN Head(subxids) ELSE next,
             Tail(subxids))

\* PrescanPreparedTransactions, lines 1362-1373: advance nextXid past subxids
RECURSIVE AdvancePastSubxids(_, _)
AdvancePastSubxids(next, subxids) ==
    IF subxids = << >> THEN next
    ELSE AdvancePastSubxids(
             IF TransactionIdFollowsOrEquals(Head(subxids), next)
             THEN TransactionIdAdvance(Head(subxids)) ELSE next,
             Tail(subxids))

\* PrescanPreparedTransactions keeping a file that fails validation
PrescanFile_keepCorrupt(st, xid, origNextXid) ==
    LET buf == ReadTwoPhaseFile(st.files, xid)
    IN IF TransactionIdFollowsOrEquals(xid, origNextXid)
       THEN [st EXCEPT !.files = RemoveTwoPhaseFile(st.files, xid)]
       ELSE IF buf = << >>
       THEN st
       ELSE IF HdrXid(buf) # xid
       THEN [st EXCEPT !.files = RemoveTwoPhaseFile(st.files, xid)]
       ELSE [files |-> st.files,
             nextXid |-> AdvancePastSubxids(st.nextXid, Children(buf)),
             result |-> IF TransactionIdPrecedes(xid, st.result) THEN xid
                        ELSE st.result]

\* PrescanPreparedTransactions reading a file from beyond nextXid like any
\* other file
PrescanFile_keepFuture(st, xid, origNextXid) ==
    LET buf == ReadTwoPhaseFile(st.files, xid)
    IN IF buf = << >>
       THEN [st EXCEPT !.files = RemoveTwoPhaseFile(st.files, xid)]
       ELSE IF HdrXid(buf) # xid
       THEN [st EXCEPT !.files = RemoveTwoPhaseFile(st.files, xid)]
       ELSE [files |-> st.files,
             nextXid |-> AdvancePastSubxids(st.nextXid, Children(buf)),
             result |-> IF TransactionIdPrecedes(xid, st.result) THEN xid
                        ELSE st.result]

\* PrescanPreparedTransactions taking a file into the running minimum before
\* it has read and validated it
PrescanFile_resultFirst(st, xid, origNextXid) ==
    LET buf == ReadTwoPhaseFile(st.files, xid)
        res == IF TransactionIdPrecedes(xid, st.result) THEN xid ELSE st.result
    IN IF TransactionIdFollowsOrEquals(xid, origNextXid)
       THEN [st EXCEPT !.files = RemoveTwoPhaseFile(st.files, xid)]
       ELSE IF buf = << >>
       THEN [st EXCEPT !.files = RemoveTwoPhaseFile(st.files, xid),
                       !.result = res]
       ELSE IF HdrXid(buf) # xid
       THEN [st EXCEPT !.files = RemoveTwoPhaseFile(st.files, xid),
                       !.result = res]
       ELSE [files |-> st.files,
             nextXid |-> AdvancePastSubxids(st.nextXid, Children(buf)),
             result |-> res]

\* PrescanPreparedTransactions testing a file against nextXid as the files
\* read before it have advanced it
PrescanFile_advancedWatermark(st, xid, origNextXid) ==
    LET buf == ReadTwoPhaseFile(st.files, xid)
    IN IF TransactionIdFollowsOrEquals(xid, st.nextXid)
       THEN [st EXCEPT !.files = RemoveTwoPhaseFile(st.files, xid)]
       ELSE IF buf = << >>
       THEN [st EXCEPT !.files = RemoveTwoPhaseFile(st.files, xid)]
       ELSE IF HdrXid(buf) # xid
       THEN [st EXCEPT !.files = RemoveTwoPhaseFile(st.files, xid)]
       ELSE [files |-> st.files,
             nextXid |-> AdvancePastSubxids(st.nextXid, Children(buf)),
             result |-> IF TransactionIdPrecedes(xid, st.result) THEN xid
                        ELSE st.result]

\* PrescanPreparedTransactions, lines 1295-1378, one directory entry.
\* st is [files, nextXid, result].
PrescanFile(st, xid, origNextXid) ==
    LET buf == ReadTwoPhaseFile(st.files, xid)
    IN IF TransactionIdFollowsOrEquals(xid, origNextXid)
       THEN [st EXCEPT !.files = RemoveTwoPhaseFile(st.files, xid)]
       ELSE IF buf = << >>
       THEN [st EXCEPT !.files = RemoveTwoPhaseFile(st.files, xid)]
       ELSE IF HdrXid(buf) # xid
       THEN [st EXCEPT !.files = RemoveTwoPhaseFile(st.files, xid)]
       ELSE [files |-> st.files,
             nextXid |-> AdvancePastSubxids(st.nextXid, Children(buf)),
             result |-> IF TransactionIdPrecedes(xid, st.result) THEN xid
                        ELSE st.result]

RECURSIVE PrescanLoop(_, _, _)
PrescanLoop(order, st, origNextXid) ==
    IF order = << >> THEN st
    ELSE PrescanLoop(Tail(order), PrescanFile(st, Head(order), origNextXid),
                     origNextXid)

PrescanPreparedTransactions(order) ==
    PrescanLoop(order, [files |-> files, nextXid |-> nextXid, result |-> nextXid],
                nextXid)

StartupPrescan ==
    /\ startup = "prescan"
    /\ \E order \in Orders(ExistingFiles(files)) :
          LET st == PrescanPreparedTransactions(order)
          IN /\ files' = st.files
             /\ disk' = st.files
             /\ nextXid' = st.nextXid
             /\ prescan' = [origNextXid |-> nextXid, seen |-> Range(order),
                             result |-> st.result]
    /\ startup' = "recover"
    /\ UNCHANGED << registry, TwoPhaseStateLock, procArray, clog, clogDisk, walvars, ckpt,
                    ckptShared, locks, unlinked, pc, bk, hist >>

\* RecoverPreparedTransactions, lines 1421-1493, one directory entry.
\* st is [files, reg, procArray, locks, err].
RecoverFile(st, xid) ==
    LET buf == ReadTwoPhaseFile(st.files, xid)
        r == MarkAsPreparing(st.reg, xid, HdrDatabase(buf), HdrGid(buf),
                             HdrOwner(buf))
    IN IF st.err # "none" THEN st
       ELSE IF TransactionIdDidCommit(xid) \/ TransactionIdDidAbort(xid)
       THEN [st EXCEPT !.files = RemoveTwoPhaseFile(st.files, xid)]
       ELSE IF buf = << >>
       THEN [st EXCEPT !.files = RemoveTwoPhaseFile(st.files, xid)]
       ELSE IF r.err # "none"
       THEN [st EXCEPT !.reg = r.reg, !.err = r.err]
       ELSE [files |-> st.files,
             reg |-> [r.reg EXCEPT !.gx[r.slot].valid = TRUE],
             procArray |-> st.procArray \cup {r.slot},
             locks |-> ProcessRecords(buf, xid, "recover", st.locks),
             err |-> "none"]

RECURSIVE RecoverLoop(_, _)
RecoverLoop(order, st) ==
    IF order = << >> THEN st
    ELSE RecoverLoop(Tail(order), RecoverFile(st, Head(order)))

RecoverPreparedTransactions(order) ==
    RecoverLoop(order, [files |-> files, reg |-> Registry,
                        procArray |-> procArray, locks |-> locks,
                        err |-> "none"])

\* An ERROR in the startup process ends the startup: the server is not up
\* (the process exits, and with it the locks it held are gone)
StartupRecover ==
    /\ startup = "recover"
    /\ LWLockFree
    /\ \E order \in Orders(ExistingFiles(files)) :
          LET st == RecoverPreparedTransactions(order)
          IN /\ files' = st.files
             /\ disk' = st.files
             /\ SetRegistry(st.reg)
             /\ procArray' = st.procArray
             /\ TwoPhaseStateLock' = LockAfter(StartupProcess, "none")
             /\ locks' = st.locks
             /\ startup' = IF st.err = "none" THEN "up" ELSE "failed"
    /\ UNCHANGED << nextXid, prescan, clog, clogDisk, walvars, ckpt, ckptShared,
                    unlinked, pc, bk, hist >>

\* ----------------------------------------------------------- specification
Next ==
    \/ \E b \in Backends : PrepareTransaction(b)
    \/ \E b \in Backends : AbortCurrentTransaction(b)
    \/ \E b \in Backends : StartPrepare(b)
    \/ \E b \in Backends : EndPrepare_create(b)
    \/ \E b \in Backends : EndPrepare_fsync(b)
    \/ \E b \in Backends : EndPrepare_crit(b)
    \/ \E b \in Backends : EndPrepare_XLogInsert(b)
    \/ \E b \in Backends : EndPrepare_XLogFlush(b)
    \/ \E b \in Backends : EndPrepare_writeCrc(b)
    \/ \E b \in Backends : EndPrepare_fsync2(b)
    \/ \E b \in Backends : EndPrepare_close(b)
    \/ \E b \in Backends : MarkAsPrepared(b)
    \/ \E b \in Backends : MarkAsPrepared_ProcArrayAdd(b)
    \/ \E b \in Backends : PostPrepare(b)
    \/ \E b \in Backends : FinishPreparedTransaction(b)
    \/ \E b \in Backends : Finish_ReadTwoPhaseFile(b)
    \/ \E b \in Backends : RecordTransactionCommitPrepared_crit(b)
    \/ \E b \in Backends : RecordTransactionCommitPrepared_XLogInsert(b)
    \/ \E b \in Backends : RecordTransactionCommitPrepared_XLogFlush(b)
    \/ \E b \in Backends : RecordTransactionCommitPrepared_clog(b)
    \/ \E b \in Backends : RecordTransactionCommitPrepared_clogTree(b)
    \/ \E b \in Backends : RecordTransactionCommitPrepared_end(b)
    \/ \E b \in Backends : RecordTransactionAbortPrepared_XLogInsert(b)
    \/ \E b \in Backends : RecordTransactionAbortPrepared_XLogFlush(b)
    \/ \E b \in Backends : RecordTransactionAbortPrepared_clog(b)
    \/ \E b \in Backends : RecordTransactionAbortPrepared_clogTree(b)
    \/ \E b \in Backends : Finish_ProcArrayRemove(b)
    \/ \E b \in Backends : Finish_Invalidate(b)
    \/ \E b \in Backends : Finish_ProcessRecords(b)
    \/ \E b \in Backends : Finish_smgrdounlink(b)
    \/ \E b \in Backends : Finish_RemoveTwoPhaseFile(b)
    \/ \E b \in Backends : Finish_RemoveGXact(b)
    \/ \E b \in Backends : CritSection_PANIC(b)
    \/ CheckpointStart
    \/ CheckpointComplete
    \/ Crash
    \/ StartupRedo
    \/ StartupPrescan
    \/ StartupRecover

Spec == Init /\ [][Next]_vars

\* A second starting point, later in a server's life: transaction 1 was
\* prepared under GID 1 and transaction 2 under another GID, both by the
\* superuser with one dropped and one created relation each; then COMMIT
\* PREPARED of transaction 2, run as transaction 3, wrote and flushed its
\* record, set clog, removed the dummy PGPROC, cleared valid and failed in a
\* post-commit callback, so the state file and the dead entry of
\* transaction 2 are still there.
OtherGid == NGids + 1

PreparedImage(xid, gid) ==
    EndPrepareRecords(
        RegisterTwoPhaseRecord(
            StartPrepareRecords(xid, BootstrapSuperUser, gid, << >>, NRels),
            TWOPHASE_RM_LOCK_ID, 0, << xid >>))

PreparedFile(xid, gid) ==
    [exists |-> TRUE,
     bytes |-> Append(PreparedImage(xid, gid),
                      StateFileCrc(PreparedImage(xid, gid)))]

InitLater ==
    LET r1 == ReserveGXact([px |-> << >>,
                            fr |-> InitFreeList(max_prepared_xacts),
                            gx |-> [s \in Slots |-> EmptyGXact]],
                           1, MyDatabaseId, 1, BootstrapSuperUser)
        s1 == r1.px[1]
        r2 == ReserveGXact(r1, 2, MyDatabaseId, OtherGid, BootstrapSuperUser)
        s2 == r2.px[2]
        fs == [x \in AllXids |-> IF x = 1 THEN PreparedFile(1, 1)
                              ELSE IF x = 2 THEN PreparedFile(2, OtherGid)
                              ELSE NoFile]
    IN /\ prepXacts = r2.px
       /\ TwoPhaseStateLock = {}
       /\ freeGXacts = r2.fr
       /\ gxacts = [r2.gx EXCEPT ![s1].valid = TRUE,
                                 ![s2].locking_xid = 3]
       /\ procArray = {s1}
       /\ nextXid = 4
       /\ prescan = NoPrescan
       /\ clog = [x \in AllXids |-> IF x = 2 THEN XCOMMITTED ELSE XIP]
       /\ clogDisk = [x \in AllXids |-> XIP]
       /\ wal = << [type |-> "PREPARE", xid |-> 1, data |-> PreparedImage(1, 1)],
                   [type |-> "PREPARE", xid |-> 2,
                    data |-> PreparedImage(2, OtherGid)],
                   [type |-> "COMMIT_PREPARED", xid |-> 2, children |-> << >>,
                    rels |-> CommitRelNodes(PreparedImage(2, OtherGid))] >>
       /\ walFlushed = 3
       /\ redoPtr = 1
       /\ ckpt = [pc |-> "idle", redo |-> 1, nextXid |-> 1, ctlNextXid |-> 1,
                  n |-> 0]
       /\ ckptShared = {}
       /\ files = fs
       /\ disk = fs
       /\ locks = {1, 2}
       /\ unlinked = {}
       /\ pc = [b \in Backends |-> "idle"]
       /\ bk = [b \in Backends |-> NoLocal]
       /\ startup = "up"
       /\ prepared = { << 1, 1 >>, << 2, OtherGid >> }
       /\ finishing = {2}
       /\ crashes = 0
       /\ ncmds = 0
       /\ committed = {}
       /\ interrupted = NothingInterrupted

SpecLater == InitLater /\ [][Next]_vars

\* The registry under load: the backends run the three commands with one
\* more GID than there are slots, and with GIDs that are too long; the
\* transactions have no subtransactions; there is no checkpoint and no crash.
RegistryGids == 1 .. (max_prepared_xacts + 1)

PrepareAnyGid(b) ==
    \E gid \in RegistryGids \cup LongGids :
       PrepareTransactionGid(b, gid, Users, {0})

FinishAnyGid(b) ==
    \E gid \in RegistryGids : FinishPreparedTransactionGid(b, gid, Users)

NextRegistry ==
    \/ \E b \in Backends : PrepareAnyGid(b)
    \/ \E b \in Backends : AbortCurrentTransaction(b)
    \/ \E b \in Backends : StartPrepare(b)
    \/ \E b \in Backends : EndPrepare_create(b)
    \/ \E b \in Backends : EndPrepare_fsync(b)
    \/ \E b \in Backends : EndPrepare_crit(b)
    \/ \E b \in Backends : EndPrepare_XLogInsert(b)
    \/ \E b \in Backends : EndPrepare_XLogFlush(b)
    \/ \E b \in Backends : EndPrepare_writeCrc(b)
    \/ \E b \in Backends : EndPrepare_fsync2(b)
    \/ \E b \in Backends : EndPrepare_close(b)
    \/ \E b \in Backends : MarkAsPrepared(b)
    \/ \E b \in Backends : MarkAsPrepared_ProcArrayAdd(b)
    \/ \E b \in Backends : PostPrepare(b)
    \/ \E b \in Backends : FinishAnyGid(b)
    \/ \E b \in Backends : Finish_ReadTwoPhaseFile(b)
    \/ \E b \in Backends : RecordTransactionCommitPrepared_crit(b)
    \/ \E b \in Backends : RecordTransactionCommitPrepared_XLogInsert(b)
    \/ \E b \in Backends : RecordTransactionCommitPrepared_XLogFlush(b)
    \/ \E b \in Backends : RecordTransactionCommitPrepared_clog(b)
    \/ \E b \in Backends : RecordTransactionCommitPrepared_clogTree(b)
    \/ \E b \in Backends : RecordTransactionCommitPrepared_end(b)
    \/ \E b \in Backends : RecordTransactionAbortPrepared_XLogInsert(b)
    \/ \E b \in Backends : RecordTransactionAbortPrepared_XLogFlush(b)
    \/ \E b \in Backends : RecordTransactionAbortPrepared_clog(b)
    \/ \E b \in Backends : RecordTransactionAbortPrepared_clogTree(b)
    \/ \E b \in Backends : Finish_ProcArrayRemove(b)
    \/ \E b \in Backends : Finish_Invalidate(b)
    \/ \E b \in Backends : Finish_ProcessRecords(b)
    \/ \E b \in Backends : Finish_smgrdounlink(b)
    \/ \E b \in Backends : Finish_RemoveTwoPhaseFile(b)
    \/ \E b \in Backends : Finish_RemoveGXact(b)

SpecRegistry == Init /\ [][NextRegistry]_vars

\* The view under load: the backends prepare and finish transactions under
\* as many GIDs as there are slots and query pg_prepared_xact; the
\* transactions have no subtransactions; there is no checkpoint and no crash.
QueryGids == 1 .. max_prepared_xacts

PrepareQueryGid(b) ==
    \E gid \in QueryGids : PrepareTransactionGid(b, gid, Users, {0})

FinishQueryGid(b) ==
    \E gid \in QueryGids : FinishPreparedTransactionGid(b, gid, Users)

NextQuery ==
    \/ \E b \in Backends : PrepareQueryGid(b)
    \/ \E b \in Backends : FinishQueryGid(b)
    \/ \E b \in Backends : pg_prepared_xact_firstcall(b)
    \/ \E b \in Backends : pg_prepared_xact_percall(b)
    \/ \E b \in Backends : pg_prepared_xact_done(b)
    \/ \E b \in Backends : AbortCurrentTransaction(b)
    \/ \E b \in Backends : StartPrepare(b)
    \/ \E b \in Backends : EndPrepare_create(b)
    \/ \E b \in Backends : EndPrepare_fsync(b)
    \/ \E b \in Backends : EndPrepare_crit(b)
    \/ \E b \in Backends : EndPrepare_XLogInsert(b)
    \/ \E b \in Backends : EndPrepare_XLogFlush(b)
    \/ \E b \in Backends : EndPrepare_writeCrc(b)
    \/ \E b \in Backends : EndPrepare_fsync2(b)
    \/ \E b \in Backends : EndPrepare_close(b)
    \/ \E b \in Backends : MarkAsPrepared(b)
    \/ \E b \in Backends : MarkAsPrepared_ProcArrayAdd(b)
    \/ \E b \in Backends : PostPrepare(b)
    \/ \E b \in Backends : Finish_ReadTwoPhaseFile(b)
    \/ \E b \in Backends : RecordTransactionCommitPrepared_crit(b)
    \/ \E b \in Backends : RecordTransactionCommitPrepared_XLogInsert(b)
    \/ \E b \in Backends : RecordTransactionCommitPrepared_XLogFlush(b)
    \/ \E b \in Backends : RecordTransactionCommitPrepared_clog(b)
    \/ \E b \in Backends : RecordTransactionCommitPrepared_clogTree(b)
    \/ \E b \in Backends : RecordTransactionCommitPrepared_end(b)
    \/ \E b \in Backends : RecordTransactionAbortPrepared_XLogInsert(b)
    \/ \E b \in Backends : RecordTransactionAbortPrepared_XLogFlush(b)
    \/ \E b \in Backends : RecordTransactionAbortPrepared_clog(b)
    \/ \E b \in Backends : RecordTransactionAbortPrepared_clogTree(b)
    \/ \E b \in Backends : Finish_ProcArrayRemove(b)
    \/ \E b \in Backends : Finish_Invalidate(b)
    \/ \E b \in Backends : Finish_ProcessRecords(b)
    \/ \E b \in Backends : Finish_smgrdounlink(b)
    \/ \E b \in Backends : Finish_RemoveTwoPhaseFile(b)
    \/ \E b \in Backends : Finish_RemoveGXact(b)

SpecQuery == Init /\ [][NextQuery]_vars

\* The finish on its own: transaction 1 is prepared under GID 1, and its
\* state file carries any stream of up to MaxRecords records of the lock
\* manager and of the invalidation messages (the info word numbers them);
\* the backends run COMMIT PREPARED and ROLLBACK PREPARED.
MaxRecords == 3

FinishRmids == {TWOPHASE_RM_LOCK_ID, TWOPHASE_RM_INVAL_ID}

RecordStreams == UNION { [1 .. n -> FinishRmids] : n \in 0 .. MaxRecords }

RECURSIVE RegisterStream(_, _, _, _)
RegisterStream(records, xid, rmids, i) ==
    IF i > Len(rmids) THEN records
    ELSE RegisterStream(RegisterTwoPhaseRecord(records, rmids[i], i, << xid >>),
                        xid, rmids, i + 1)

FinishImage(xid, gid, rmids) ==
    EndPrepareRecords(
        RegisterStream(
            StartPrepareRecords(xid, BootstrapSuperUser, gid, << >>, NRels),
            xid, rmids, 1))

InitFinish ==
    LET r1 == ReserveGXact([px |-> << >>,
                            fr |-> InitFreeList(max_prepared_xacts),
                            gx |-> [s \in Slots |-> EmptyGXact]],
                           1, MyDatabaseId, 1, BootstrapSuperUser)
        s1 == r1.px[1]
    IN \E rmids \in RecordStreams :
       LET image == FinishImage(1, 1, rmids)
           fs == [x \in AllXids |->
                     IF x = 1
                     THEN [exists |-> TRUE,
                           bytes |-> Append(image, StateFileCrc(image))]
                     ELSE NoFile]
       IN /\ prepXacts = r1.px
          /\ freeGXacts = r1.fr
          /\ gxacts = [r1.gx EXCEPT ![s1].valid = TRUE]
          /\ TwoPhaseStateLock = {}
          /\ procArray = {s1}
          /\ nextXid = 2
          /\ prescan = NoPrescan
          /\ clog = [x \in AllXids |-> XIP]
          /\ clogDisk = [x \in AllXids |-> XIP]
          /\ wal = << [type |-> "PREPARE", xid |-> 1, data |-> image] >>
          /\ walFlushed = 1
          /\ redoPtr = 1
          /\ ckpt = [pc |-> "idle", redo |-> 1, nextXid |-> 1, ctlNextXid |-> 1,
                     n |-> 0]
          /\ ckptShared = {}
          /\ files = fs
          /\ disk = fs
          /\ locks = {1}
          /\ unlinked = {}
          /\ pc = [b \in Backends |-> "idle"]
          /\ bk = [b \in Backends |-> NoLocal]
          /\ startup = "up"
          /\ prepared = { << 1, 1 >> }
          /\ finishing = {}
          /\ crashes = 0
          /\ ncmds = 0
          /\ committed = {}
          /\ interrupted = NothingInterrupted

NextFinish ==
    \/ \E b \in Backends : FinishQueryGid(b)
    \/ \E b \in Backends : AbortCurrentTransaction(b)
    \/ \E b \in Backends : Finish_ReadTwoPhaseFile(b)
    \/ \E b \in Backends : RecordTransactionCommitPrepared_crit(b)
    \/ \E b \in Backends : RecordTransactionCommitPrepared_XLogInsert(b)
    \/ \E b \in Backends : RecordTransactionCommitPrepared_XLogFlush(b)
    \/ \E b \in Backends : RecordTransactionCommitPrepared_clog(b)
    \/ \E b \in Backends : RecordTransactionCommitPrepared_clogTree(b)
    \/ \E b \in Backends : RecordTransactionCommitPrepared_end(b)
    \/ \E b \in Backends : RecordTransactionAbortPrepared_XLogInsert(b)
    \/ \E b \in Backends : RecordTransactionAbortPrepared_XLogFlush(b)
    \/ \E b \in Backends : RecordTransactionAbortPrepared_clog(b)
    \/ \E b \in Backends : RecordTransactionAbortPrepared_clogTree(b)
    \/ \E b \in Backends : Finish_ProcArrayRemove(b)
    \/ \E b \in Backends : Finish_Invalidate(b)
    \/ \E b \in Backends : Finish_ProcessRecords(b)
    \/ \E b \in Backends : Finish_smgrdounlink(b)
    \/ \E b \in Backends : Finish_RemoveTwoPhaseFile(b)
    \/ \E b \in Backends : Finish_RemoveGXact(b)

SpecFinish == InitFinish /\ [][NextFinish]_vars

\* The xid counter gone round: the backends have lived through all 2^32
\* xids, and xid 1 is about to be assigned again.  What is left of the
\* transaction that was xid 1 before: a backend that asked for its dummy
\* PGPROC still holds the answer in its statics (any slot), and a PREPARE
\* that failed in EndPrepare has left its state file, which nothing removes
\* (here: created and not written).
LeftoverFile == [exists |-> TRUE, bytes |-> << >>]

WrappedStatics ==
    { NoLocal } \cup
    { [NoLocal EXCEPT !.cached_xid = 1, !.cached_proc = s] : s \in Slots }

InitWrap ==
    /\ prepXacts = << >>
    /\ freeGXacts = InitFreeList(max_prepared_xacts)
    /\ gxacts = [s \in Slots |-> EmptyGXact]
    /\ TwoPhaseStateLock = {}
    /\ procArray = {}
    /\ nextXid = 1
    /\ prescan = NoPrescan
    /\ clog = [x \in AllXids |-> XIP]
    /\ clogDisk = [x \in AllXids |-> XIP]
    /\ wal = << >>
    /\ walFlushed = 0
    /\ redoPtr = 1
    /\ ckpt = [pc |-> "idle", redo |-> 1, nextXid |-> 1, ctlNextXid |-> 1, n |-> 0]
    /\ ckptShared = {}
    /\ \E left \in {NoFile, LeftoverFile} :
          /\ files = [x \in AllXids |-> IF x = 1 THEN left ELSE NoFile]
          /\ disk = files
    /\ locks = {}
    /\ unlinked = {}
    /\ pc = [b \in Backends |-> "idle"]
    /\ \E st \in WrappedStatics :
          bk = [b \in Backends |-> IF b = 1 THEN st ELSE NoLocal]
    /\ startup = "up"
    /\ prepared = {}
    /\ finishing = {}
    /\ crashes = 0
    /\ ncmds = 0
    /\ committed = {}
    /\ interrupted = NothingInterrupted

\* After the wrap the superuser issues the commands, under as many GIDs as
\* there are slots, for transactions with and without subtransactions
PrepareWrapGid(b) ==
    \E gid \in QueryGids :
       PrepareTransactionGid(b, gid, Superusers, 0 .. MaxSubxacts)

FinishWrapGid(b) ==
    \E gid \in QueryGids : FinishPreparedTransactionGid(b, gid, Superusers)

NextWrap ==
    \/ \E b \in Backends : PrepareWrapGid(b)
    \/ \E b \in Backends : FinishWrapGid(b)
    \/ \E b \in Backends : AbortCurrentTransaction(b)
    \/ \E b \in Backends : StartPrepare(b)
    \/ \E b \in Backends : EndPrepare_create(b)
    \/ \E b \in Backends : EndPrepare_fsync(b)
    \/ \E b \in Backends : EndPrepare_crit(b)
    \/ \E b \in Backends : EndPrepare_XLogInsert(b)
    \/ \E b \in Backends : EndPrepare_XLogFlush(b)
    \/ \E b \in Backends : EndPrepare_writeCrc(b)
    \/ \E b \in Backends : EndPrepare_fsync2(b)
    \/ \E b \in Backends : EndPrepare_close(b)
    \/ \E b \in Backends : MarkAsPrepared(b)
    \/ \E b \in Backends : MarkAsPrepared_ProcArrayAdd(b)
    \/ \E b \in Backends : PostPrepare(b)
    \/ \E b \in Backends : Finish_ReadTwoPhaseFile(b)
    \/ \E b \in Backends : RecordTransactionCommitPrepared_crit(b)
    \/ \E b \in Backends : RecordTransactionCommitPrepared_XLogInsert(b)
    \/ \E b \in Backends : RecordTransactionCommitPrepared_XLogFlush(b)
    \/ \E b \in Backends : RecordTransactionCommitPrepared_clog(b)
    \/ \E b \in Backends : RecordTransactionCommitPrepared_clogTree(b)
    \/ \E b \in Backends : RecordTransactionCommitPrepared_end(b)
    \/ \E b \in Backends : RecordTransactionAbortPrepared_XLogInsert(b)
    \/ \E b \in Backends : RecordTransactionAbortPrepared_XLogFlush(b)
    \/ \E b \in Backends : RecordTransactionAbortPrepared_clog(b)
    \/ \E b \in Backends : RecordTransactionAbortPrepared_clogTree(b)
    \/ \E b \in Backends : Finish_ProcArrayRemove(b)
    \/ \E b \in Backends : Finish_Invalidate(b)
    \/ \E b \in Backends : Finish_ProcessRecords(b)
    \/ \E b \in Backends : Finish_smgrdounlink(b)
    \/ \E b \in Backends : Finish_RemoveTwoPhaseFile(b)
    \/ \E b \in Backends : Finish_RemoveGXact(b)

SpecWrap == InitWrap /\ [][NextWrap]_vars

\* The startup on its own, from the end of the WAL replay: pg_twophase holds
\* any mix of no file, a valid state file, one with a subtransaction, one
\* whose CRC is not the CRC of its content and one whose header names
\* another xid, under names before and beyond nextXid, among them FFFFFFFE;
\* no more valid files than there are gxacts, each with its own GID; pg_clog
\* has an outcome only for xids that were assigned (and, to keep the
\* directory small, only for those with a file).
StartupXids == {Xid_FFFFFFFE, 1, MaxXid - 1}

StartupNextXids == {2, 3, 100}

FileKinds == {"none", "valid", "subxact", "corrupt", "misnamed"}

\* The prescan is also given a valid state file whose subtransaction is as
\* far ahead of nextXid as an xid can be and still follow it
PrescanKinds == FileKinds \cup {"farsubxact"}

StartupGid(xid) == IF xid = Xid_FFFFFFFE THEN MaxXid + 1 ELSE xid

\* The state files are those of several databases and owners
StartupDatabase(xid) == IF xid = Xid_FFFFFFFE THEN MyDatabaseId + 1
                        ELSE MyDatabaseId

StartupOwner(xid) == IF xid = 1 THEN OrdinaryUser ELSE BootstrapSuperUser

StartupImage(xid, children) ==
    LET r == RegisterTwoPhaseRecord(
                 StartPrepareRecords(xid, StartupOwner(xid), StartupGid(xid),
                                     children, NRels),
                 TWOPHASE_RM_LOCK_ID, 0, << xid >>)
    IN EndPrepareRecords([r EXCEPT ![4] = StartupDatabase(xid)])

StartupFile(xid, kind) ==
    LET plain == StartupImage(xid, << >>)
        sub == StartupImage(xid, << xid + 1 >>)
        farsub == StartupImage(xid, << MaxInt32 >>)
        other == StartupImage(xid + 1, << >>)
    IN IF kind = "none" THEN NoFile
       ELSE [exists |-> TRUE,
             bytes |->
                IF kind = "valid" THEN Append(plain, StateFileCrc(plain))
                ELSE IF kind = "subxact" THEN Append(sub, StateFileCrc(sub))
                ELSE IF kind = "farsubxact"
                THEN Append(farsub, StateFileCrc(farsub))
                ELSE IF kind = "corrupt"
                THEN Append(plain, BogusCrc(StateFileCrc(plain)))
                ELSE Append(other, StateFileCrc(other))]

InitStartupOver(kindset) ==
    /\ prepXacts = << >>
    /\ freeGXacts = InitFreeList(max_prepared_xacts)
    /\ gxacts = [s \in Slots |-> EmptyGXact]
    /\ TwoPhaseStateLock = {}
    /\ procArray = {}
    /\ nextXid \in StartupNextXids
    /\ prescan = NoPrescan
    /\ \E kinds \in [StartupXids -> kindset] :
          /\ Cardinality({ x \in StartupXids :
                              kinds[x] \in {"valid", "subxact", "farsubxact"} })
                <= max_prepared_xacts
          /\ \A x \in StartupXids :
                kinds[x] = "farsubxact" =>
                   TransactionIdFollowsOrEquals(MaxInt32, x)
          /\ files = [x \in AllXids |-> IF x \in StartupXids
                                         THEN StartupFile(x, kinds[x])
                                         ELSE NoFile]
    /\ disk = files
    /\ \E status \in [StartupXids -> {XIP, XCOMMITTED, XABORTED}] :
          /\ \A x \in StartupXids :
                status[x] # XIP =>
                   files[x].exists /\ TransactionIdPrecedes(x, nextXid)
          /\ clog = [x \in AllXids |-> IF x \in StartupXids THEN status[x]
                                        ELSE XIP]
    /\ clogDisk = clog
    /\ wal = << >>
    /\ walFlushed = 0
    /\ redoPtr = 1
    /\ ckpt = [pc |-> "idle", redo |-> 1, nextXid |-> 1, ctlNextXid |-> 1,
               n |-> 0]
    /\ ckptShared = {}
    /\ locks = {}
    /\ unlinked = {}
    /\ pc = [b \in Backends |-> "idle"]
    /\ bk = [b \in Backends |-> NoLocal]
    /\ startup = "prescan"
    /\ prepared = {}
    /\ finishing = {}
    /\ crashes = 1
    /\ ncmds = 0
    /\ committed = {}
    /\ interrupted = NothingInterrupted

InitStartup == InitStartupOver(FileKinds)

\* Between the two passes the medium loses the CRC of a valid state file:
\* ReadTwoPhaseFile, which accepted the file in the prescan, returns NULL
\* for it in RecoverPreparedTransactions
StateFileDamaged ==
    /\ startup = "recover"
    /\ \E x \in ExistingFiles(files) :
          /\ ValidOn(files, x)
          /\ files' = [files EXCEPT ![x].bytes =
                          [files[x].bytes EXCEPT ![Len(files[x].bytes)] =
                              BogusCrc(files[x].bytes[Len(files[x].bytes)])]]
          /\ disk' = files'
    /\ UNCHANGED << registry, TwoPhaseStateLock, procArray, nextXid, prescan,
                    clog, clogDisk,
                    walvars, ckpt, ckptShared, locks, unlinked, pc, bk,
                    startup, hist >>

NextStartup ==
    \/ StartupPrescan
    \/ StateFileDamaged
    \/ StartupRecover

SpecStartup == InitStartup /\ [][NextStartup]_vars

\* The prescan on its own, over the directories of the startup and those
\* with a far subtransaction
InitPrescan == InitStartupOver(PrescanKinds)

NextPrescan == StartupPrescan

SpecPrescan == InitPrescan /\ [][NextPrescan]_vars

\* ------------------------------------------------------------------ claims

InRegistry(xid) ==
    \E i \in DOMAIN prepXacts : gxacts[prepXacts[i]].xid = xid

InRegistryValidXid(xid) ==
    \E i \in DOMAIN prepXacts :
        gxacts[prepXacts[i]].xid = xid /\ gxacts[prepXacts[i]].valid

InRegistryValid(xid, gid) ==
    \E i \in DOMAIN prepXacts :
        /\ gxacts[prepXacts[i]].xid = xid
        /\ gxacts[prepXacts[i]].gid = gid
        /\ gxacts[prepXacts[i]].valid

Restarted == crashes > 0 /\ startup \in {"up", "failed"}

FlushedPrepare(xid) ==
    \E i \in 1 .. walFlushed : wal[i].type = "PREPARE" /\ wal[i].xid = xid

\* C1: once PREPARE has returned for a transaction and no COMMIT PREPARED or
\* ROLLBACK PREPARED record was written for it, the registry after a crash
\* and restart holds its entry, with its xid and gid, valid
C1_Durability ==
    Restarted =>
        \A p \in prepared :
            p[1] \notin finishing => InRegistryValid(p[1], p[2])

\* C2: a state file that carries a correct CRC, on disk or as written, has
\* its PREPARE record among the flushed WAL records
C2_ValidFileHasFlushedPrepare ==
    \A x \in Xids :
        (ValidOn(disk, x) \/ ValidOn(files, x)) => FlushedPrepare(x)

C2_Witness ==
    \E b \in Backends :
        /\ pc[b] = "EndPrepare_close"
        /\ ValidOn(disk, bk[b].xid)
        /\ FlushedPrepare(bk[b].xid)

\* The state file of the xid on disk is the image of the PREPARE record
\* followed by the inverted CRC
BogusOnDisk(xid, data) ==
    /\ disk[xid].exists
    /\ disk[xid].bytes = Append(data, BitNot(StateFileCrc(data)))

\* C3: a PREPARE record becomes flushed only when the state file with the
\* inverted CRC is already on disk, and the state file on disk gets its
\* correct CRC only when the PREPARE record is already flushed
C3_HandoffOrder ==
    [][\A x \in Xids :
          /\ \A i \in (walFlushed + 1) .. walFlushed' :
                (i <= Len(wal') /\ wal'[i].type = "PREPARE" /\ wal'[i].xid = x)
                    => BogusOnDisk(x, wal'[i].data)
          /\ (~ValidOn(disk, x) /\ ValidOn(disk', x)) => FlushedPrepare(x)]_vars

C3_Witness ==
    \E b \in Backends :
        /\ pc[b] = "EndPrepare_fsync2"
        /\ FlushedPrepare(bk[b].xid)
        /\ BogusOnDisk(bk[b].xid, bk[b].records)
        /\ ValidOn(files, bk[b].xid)

\* C4: a PREPARE cut short by a crash with its record not in the surviving
\* WAL leaves no state file after the startup scan, has no entry in the
\* registry when the restart is over, and a valid entry with its xid exists
\* only once a PREPARE record of that xid is in the WAL
C4_UnloggedPrepareDiscarded ==
    \A x \in interrupted.unlogged :
        /\ startup = "recover" => ~files[x].exists /\ ~disk[x].exists
        /\ (Restarted /\ ncmds = interrupted.ncmds) => ~InRegistry(x)
        /\ InRegistryValidXid(x) => HasPrepare(wal, x)

C4_Witness ==
    /\ startup = "up"
    /\ crashes > 0
    /\ ncmds = interrupted.ncmds
    /\ \E x \in interrupted.leftover : ~files[x].exists /\ x < nextXid

\* C5: a PREPARE cut short by a crash after its record was flushed and
\* before the correct CRC was fsynced has, once the restart is over and until
\* a finish record is written for it, a state file with a valid CRC and a
\* valid entry with its xid and gid; a ROLLBACK PREPARED of it that reaches
\* the removal of the state file has unlinked the files created by it
C5_LoggedPrepareRecovered ==
    \A p \in interrupted.logged :
        /\ (Restarted /\ p[1] \notin finishing) =>
              ValidOn(files, p[1]) /\ InRegistryValid(p[1], p[2])
        /\ \A b \in Backends :
              (pc[b] = "RemoveTwoPhaseFile" /\ ~bk[b].isCommit /\ bk[b].xid = p[1])
                  => Range(AbortRelNodes(bk[b].buf)) \subseteq unlinked

\* The positions of a backend in EndPrepare after the PREPARE record was
\* inserted and before CheckpointStartLock is released
PrepareWindow ==
    {"EndPrepare_XLogFlush", "EndPrepare_writeCrc", "EndPrepare_fsync2",
     "EndPrepare_close"}

\* C6: from before the insertion of the PREPARE record until the file with
\* the correct CRC is fsynced and closed the backend holds CheckpointStartLock
\* in shared mode, and no checkpoint has fixed its redo pointer behind the
\* PREPARE record in the meantime
C6_PrepareHoldsCheckpointLock ==
    \A b \in Backends :
        /\ pc[b] = "EndPrepare_XLogInsert" => b \in ckptShared
        /\ pc[b] \in PrepareWindow =>
              /\ b \in ckptShared
              /\ ckpt.redo <= bk[b].recptr
              /\ redoPtr <= bk[b].recptr

C6_Witness ==
    \E b \in Backends :
        /\ pc[b] = "EndPrepare_fsync2"
        /\ ckpt.pc = "idle"
        /\ ckpt.n < MaxCheckpoints
        /\ startup = "up"

\* The positions of a backend in a finish after its record was inserted and
\* before clog is updated for the whole transaction tree
FinishWindow ==
    {"Commit_XLogFlush", "Commit_clog", "Commit_clogTree",
     "Abort_XLogFlush", "Abort_clog", "Abort_clogTree"}

\* C7: in COMMIT PREPARED and in ROLLBACK PREPARED, from before the insertion
\* of the record until clog is updated, the backend holds CheckpointStartLock
\* in shared mode, and no checkpoint has fixed its redo pointer behind the
\* record in the meantime
C7_FinishHoldsCheckpointLock ==
    \A b \in Backends :
        /\ pc[b] \in {"Commit_XLogInsert", "Abort_XLogInsert"} => b \in ckptShared
        /\ pc[b] \in FinishWindow =>
              /\ b \in ckptShared
              /\ ckpt.redo <= bk[b].recptr
              /\ redoPtr <= bk[b].recptr

\* Every slot is either in the used array or on the free list, once
RegistryPartition ==
    /\ Range(prepXacts) \cap Range(freeGXacts) = {}
    /\ Range(prepXacts) \cup Range(freeGXacts) = Slots
    /\ Len(prepXacts) + Len(freeGXacts) = max_prepared_xacts

\* C8: while the server is up, a transaction whose COMMIT PREPARED returned
\* is committed in clog, has no state file and no entry in the used array
\* (its slot is free or taken again); and after a crash and restart a
\* transaction whose COMMIT PREPARED record survived the crash, with its
\* state file or entry still there at the crash, is committed in clog, has
\* no state file and is not a valid entry of the registry
C8_FinishAtomic ==
    /\ startup = "up" =>
          /\ RegistryPartition
          /\ \A x \in committed :
                /\ clog[x] = XCOMMITTED
                /\ ~files[x].exists
                /\ ~InRegistry(x)
    /\ Restarted =>
          \A x \in interrupted.committing :
                /\ clog[x] = XCOMMITTED
                /\ ~files[x].exists
                /\ ~InRegistryValidXid(x)

\* The record of the finish the backend is running
OwnRecord(b) ==
    /\ bk[b].recptr \in DOMAIN wal
    /\ wal[bk[b].recptr].xid = bk[b].xid
    /\ wal[bk[b].recptr].type =
          IF bk[b].isCommit THEN "COMMIT_PREPARED" ELSE "ABORT_PREPARED"

FinishRels(b) ==
    Range(IF bk[b].isCommit THEN CommitRelNodes(bk[b].buf)
          ELSE AbortRelNodes(bk[b].buf))

FinishStatus(b) == IF bk[b].isCommit THEN XCOMMITTED ELSE XABORTED

\* C9: in a finish (commit or rollback), when clog is about to be updated
\* the record is inserted and flushed; when the dummy PGPROC is about to
\* leave the ProcArray clog is updated for the whole tree; when valid is
\* about to be cleared the dummy PGPROC has left the ProcArray; when the
\* callbacks are about to run valid is cleared and the locks are still
\* held; when the files are about to be unlinked the callbacks have
\* released the locks; when the state file is about to be removed the files
\* are unlinked; and when the entry is about to be removed the state file is
\* gone.  Up to each of these steps the later ones have not been taken: the
\* entry is valid and in the ProcArray until clog is updated, and the state
\* file and the entry stay until the end.
C9_FinishOrder ==
    \A b \in Backends :
        LET x == bk[b].xid
            g == bk[b].gx
        IN /\ pc[b] \in {"Commit_clog", "Abort_clog"} =>
                 OwnRecord(b) /\ bk[b].recptr <= walFlushed
           /\ pc[b] \in {"Commit_clog", "Abort_clog", "Commit_clogTree",
                         "Abort_clogTree", "Commit_end", "ProcArrayRemove"} =>
                 /\ g \in procArray /\ gxacts[g].valid
           /\ pc[b] = "ProcArrayRemove" =>
                 \A y \in {x} \cup Range(Children(bk[b].buf)) :
                     clog[y] = FinishStatus(b)
           /\ pc[b] = "Invalidate" => g \notin procArray /\ gxacts[g].valid
           /\ pc[b] \in {"Commit_clog", "Abort_clog", "Commit_clogTree",
                         "Abort_clogTree", "Commit_end", "ProcArrayRemove",
                         "Invalidate", "ProcessRecords"} => x \in locks
           /\ pc[b] = "ProcessRecords" => ~gxacts[g].valid
           /\ pc[b] = "smgrdounlink" => x \notin locks
           /\ pc[b] \in {"Commit_clog", "Abort_clog", "Commit_clogTree",
                         "Abort_clogTree", "Commit_end", "ProcArrayRemove",
                         "Invalidate", "ProcessRecords", "smgrdounlink",
                         "RemoveTwoPhaseFile"} =>
                 files[x].exists /\ InRegistry(x)
           /\ pc[b] = "RemoveTwoPhaseFile" => FinishRels(b) \subseteq unlinked
           /\ pc[b] = "RemoveGXact" =>
                 /\ ~files[x].exists
                 /\ \E i \in DOMAIN prepXacts : prepXacts[i] = g

C9_Witness ==
    \E b \in Backends :
        /\ pc[b] = "RemoveGXact"
        /\ FinishRels(b) # {}
        /\ FinishRels(b) \subseteq unlinked
        /\ bk[b].xid \notin locks

\* C10: whenever clog reports a child of a prepared transaction committed,
\* it reports the parent committed
C10_ParentFirst ==
    \A i \in DOMAIN wal :
        wal[i].type = "PREPARE" =>
            \A c \in Range(Children(wal[i].data)) :
                clog[c] = XCOMMITTED => clog[wal[i].xid] = XCOMMITTED

C10_Witness ==
    \E b \in Backends :
        /\ pc[b] = "Commit_clogTree"
        /\ clog[bk[b].xid] = XCOMMITTED
        /\ \E c \in Range(Children(bk[b].buf)) : clog[c] = XIP

\* ------------------------------------------------- claims about the registry

\* The positions of a backend in PREPARE TRANSACTION after MarkAsPreparing
PrepareInProgress ==
    {"StartPrepare", "EndPrepare", "EndPrepare_fsync", "EndPrepare_crit",
     "EndPrepare_XLogInsert", "EndPrepare_XLogFlush", "EndPrepare_writeCrc",
     "EndPrepare_fsync2", "EndPrepare_close", "MarkAsPrepared", "ProcArrayAdd",
     "PostPrepare"}

\* The positions of a backend in COMMIT / ROLLBACK PREPARED after LockGXact
FinishSteps ==
    {"ReadTwoPhaseFile", "Commit_crit", "Commit_XLogInsert", "Commit_XLogFlush",
     "Commit_clog", "Commit_clogTree", "Commit_end", "Abort_XLogInsert",
     "Abort_XLogFlush", "Abort_clog", "Abort_clogTree", "ProcArrayRemove",
     "Invalidate", "ProcessRecords", "smgrdounlink", "RemoveTwoPhaseFile",
     "RemoveGXact"}

PrepareErrors ==
    {"invalid_parameter", "duplicate_gid", "out_of_slots", "assertion_failed"}

FinishErrors == {"no_such_gid", "busy", "permission_denied"}

\* This step is backend b issuing PREPARE TRANSACTION
IssuedPrepare(b) ==
    /\ pc[b] = "idle"
    /\ \/ pc'[b] = "StartPrepare"
       \/ pc'[b] = "ERROR" /\ bk'[b].err \in PrepareErrors

\* This step is backend b issuing COMMIT PREPARED or ROLLBACK PREPARED
IssuedFinish(b) ==
    /\ pc[b] = "idle"
    /\ \/ pc'[b] = "ReadTwoPhaseFile"
       \/ pc'[b] = "ERROR" /\ bk'[b].err \in FinishErrors

Failed(b, err) == pc[b] = "ERROR" /\ bk[b].err = err

UsedEntries == { gxacts[prepXacts[i]] : i \in DOMAIN prepXacts }

\* A used entry whose prepare or finish died
Dead(e) == ~e.valid /\ ~TransactionIdIsActive(e.locking_xid)

\* C11: no two entries of the used array carry the same GID, whatever their
\* valid flag and locking_xid
C11_GidUnique ==
    \A i, j \in DOMAIN prepXacts :
        i # j => gxacts[prepXacts[i]].gid # gxacts[prepXacts[j]].gid

C11_Witness ==
    /\ Len(prepXacts) = 2
    /\ \E e \in UsedEntries : e.valid
    /\ \E e \in UsedEntries : ~e.valid

\* C12: a PREPARE TRANSACTION issued while another backend is preparing a
\* transaction under the same GID fails with duplicate-gid; one issued for a
\* GID no used entry carries, with a gxact on the free list, succeeds; and no
\* two backends are ever preparing under the same GID
C12_OneReserveWins ==
    [][\A b \in Backends :
          /\ IssuedPrepare(b) =>
                /\ (\E c \in Backends \ {b} :
                       pc[c] \in PrepareInProgress /\ bk[c].gid = bk'[b].gid)
                   => (pc'[b] = "ERROR" /\ bk'[b].err = "duplicate_gid")
                /\ (/\ strlen(bk'[b].gid) < GIDSIZE
                    /\ freeGXacts # << >>
                    /\ \A e \in UsedEntries : e.gid # bk'[b].gid)
                   => pc'[b] = "StartPrepare"
          /\ \A c \in Backends \ {b} :
                (pc'[b] \in PrepareInProgress /\ pc'[c] \in PrepareInProgress)
                => bk'[b].gid # bk'[c].gid]_vars

C12_Witness ==
    \E b \in Backends, c \in Backends :
        /\ Failed(b, "duplicate_gid")
        /\ pc[c] \in PrepareInProgress
        /\ bk[c].gid = bk[b].gid
        /\ ~gxacts[bk[c].gx].valid

\* C13: the used array never holds more than max_prepared_xacts entries, and
\* the assertion numPrepXacts < max_prepared_xacts of MarkAsPreparing never
\* fails, neither in a reserve that ran nor in one that could run now
C13_Capacity ==
    /\ Len(prepXacts) <= max_prepared_xacts
    /\ \A b \in Backends : ~Failed(b, "assertion_failed")
    /\ \A gid \in RegistryGids :
          MarkAsPreparing(Registry, nextXid, MyDatabaseId, gid,
                          OrdinaryUser).err
              # "assertion_failed"

C13_Witness ==
    /\ Len(prepXacts) = max_prepared_xacts
    /\ freeGXacts = << >>
    /\ \E b \in Backends : pc[b] = "StartPrepare"

\* C14: every slot is in exactly one place, once in the used array or once
\* on the free list
C14_FreelistIntegrity ==
    \A s \in Slots :
        Cardinality({ i \in DOMAIN prepXacts : prepXacts[i] = s })
          + Cardinality({ i \in DOMAIN freeGXacts : freeGXacts[i] = s }) = 1

C14_Witness ==
    /\ Len(prepXacts) = 1
    /\ prepXacts[1] # Head(InitFreeList(max_prepared_xacts))
    /\ Head(InitFreeList(max_prepared_xacts)) \in Range(freeGXacts)

\* C15: a COMMIT / ROLLBACK PREPARED issued for a GID whose valid entry is
\* locked by an xid that is still active fails with busy, and no two
\* backends are ever in the finish steps on the same gxact
C15_FinishersExclusive ==
    [][\A b \in Backends :
          /\ (/\ IssuedFinish(b)
              /\ \E e \in UsedEntries :
                    /\ e.valid
                    /\ e.gid = bk'[b].gid
                    /\ TransactionIdIsActive(e.locking_xid))
             => (pc'[b] = "ERROR" /\ bk'[b].err = "busy")
          /\ \A c \in Backends \ {b} :
                (pc'[b] \in FinishSteps /\ pc'[c] \in FinishSteps)
                => bk'[b].gx # bk'[c].gx]_vars

C15_Witness ==
    \E b \in Backends, c \in Backends :
        /\ Failed(b, "busy")
        /\ pc[c] \in FinishSteps
        /\ bk[c].gid = bk[b].gid
        /\ gxacts[bk[c].gx].valid
        /\ gxacts[bk[c].gx].locking_xid = bk[c].myxid

\* C16: LockGXact succeeds only for the owner of the entry or a superuser;
\* for any other caller, on a valid entry nobody holds, the command fails
\* with permission-denied, the entry is left with no locking_xid, and the
\* WAL, clog, the state files, the relation files and the ProcArray are as
\* before, also when the failed command has ended
C16_Authorization ==
    [][\A b \in Backends :
          /\ (IssuedFinish(b) /\ pc'[b] = "ReadTwoPhaseFile") =>
                \/ bk'[b].user = gxacts[bk'[b].gx].owner
                \/ superuser_arg(bk'[b].user)
          /\ (/\ IssuedFinish(b)
              /\ \E e \in UsedEntries :
                    /\ e.valid
                    /\ e.gid = bk'[b].gid
                    /\ ~TransactionIdIsActive(e.locking_xid)
                    /\ bk'[b].user # e.owner
                    /\ bk'[b].user # BootstrapSuperUser)
             => (pc'[b] = "ERROR" /\ bk'[b].err = "permission_denied")
          /\ (IssuedFinish(b) /\ bk'[b].err = "permission_denied") =>
                /\ UNCHANGED << wal, clog, files, disk, unlinked, procArray,
                                prepXacts, freeGXacts >>
                /\ \A s \in Range(prepXacts) :
                      gxacts[s].gid = bk'[b].gid =>
                          /\ gxacts'[s].locking_xid = InvalidTransactionId
                          /\ gxacts'[s].valid
          /\ (Failed(b, "permission_denied") /\ pc'[b] = "idle"
                 /\ crashes' = crashes) =>
                UNCHANGED << wal, clog, files, disk, unlinked, procArray,
                             registry >>]_vars

C16_Witness ==
    \E b \in Backends :
        /\ Failed(b, "permission_denied")
        /\ \E e \in UsedEntries :
              /\ e.valid
              /\ e.gid = bk[b].gid
              /\ e.owner # bk[b].user
              /\ e.locking_xid = InvalidTransactionId

\* C17: a COMMIT / ROLLBACK PREPARED fails with no-such-gid, leaving the
\* registry as it was, exactly when no valid entry of the used array carries
\* the GID: when no entry carries it, or when the entry that does is not
\* valid
C17_OnlyValidEntries ==
    [][\A b \in Backends :
          IssuedFinish(b) =>
             /\ (\A e \in UsedEntries : ~(e.valid /\ e.gid = bk'[b].gid))
                => /\ pc'[b] = "ERROR"
                   /\ bk'[b].err = "no_such_gid"
                   /\ UNCHANGED registry
             /\ (pc'[b] = "ERROR" /\ bk'[b].err = "no_such_gid")
                => \A e \in UsedEntries : ~(e.valid /\ e.gid = bk'[b].gid)]_vars

C17_Witness ==
    \E b \in Backends, c \in Backends :
        /\ Failed(b, "no_such_gid")
        /\ pc[c] \in {"ProcessRecords", "smgrdounlink", "RemoveTwoPhaseFile",
                      "RemoveGXact"}
        /\ bk[c].gid = bk[b].gid
        /\ bk[c].gx \in Range(prepXacts)
        /\ ~gxacts[bk[c].gx].valid

\* The owner of the valid entry of this GID could lock it now
Lockable(gid) ==
    \E e \in UsedEntries :
        /\ e.valid
        /\ e.gid = gid
        /\ LockGXact(Registry, gid, e.owner, nextXid).err = "none"

\* C18: when ReadTwoPhaseFile returns NULL the command fails with
\* data-corrupted and the WAL, clog, the used array and the ProcArray are as
\* before, the entry valid and its dummy PGPROC in the ProcArray; while the
\* failed command has not ended the entry is busy, and once it has ended the
\* entry can be locked again
C18_DataCorruptedKeepsPrepared ==
    [][\A b \in Backends :
          /\ (pc[b] = "ReadTwoPhaseFile" /\ pc'[b] = "ERROR") =>
                /\ bk'[b].err = "data_corrupted"
                /\ UNCHANGED << wal, clog, prepXacts, freeGXacts, procArray >>
                /\ bk[b].gx \in Range(prepXacts')
                /\ gxacts'[bk[b].gx].valid
                /\ gxacts'[bk[b].gx].gid = bk[b].gid
                /\ bk[b].gx \in procArray'
                /\ \A u \in Users :
                      (LockGXact(Registry, bk[b].gid, u, nextXid).err = "busy")'
          /\ (Failed(b, "data_corrupted") /\ pc'[b] = "idle"
                 /\ crashes' = crashes) =>
                \E gid \in RegistryGids : gid = bk[b].gid /\ Lockable(gid)']_vars

C18_Witness ==
    \E b \in Backends :
        /\ Failed(b, "data_corrupted")
        /\ \E s \in Range(prepXacts) :
              /\ gxacts[s].gid = bk[b].gid
              /\ gxacts[s].valid
              /\ gxacts[s].locking_xid = bk[b].myxid
              /\ s \in procArray

\* C19: MarkAsPreparing fails with out-of-slots only when every slot is in
\* the used array with an entry that is valid or whose locking_xid is still
\* active
C19_OutOfSlotsOnlyWhenFull ==
    [][\A b \in Backends :
          (IssuedPrepare(b) /\ pc'[b] = "ERROR" /\ bk'[b].err = "out_of_slots")
          => /\ freeGXacts = << >>
             /\ \A s \in Slots :
                   /\ s \in Range(prepXacts)
                   /\ \/ gxacts[s].valid
                      \/ TransactionIdIsActive(gxacts[s].locking_xid)]_vars

C19_Witness ==
    \E b \in Backends :
        /\ Failed(b, "out_of_slots")
        /\ Len(prepXacts) = max_prepared_xacts
        /\ \A e \in UsedEntries : ~Dead(e)
        /\ \A e \in UsedEntries : e.gid # bk[b].gid

\* C20: a GID of GIDSIZE - 1 bytes is accepted; a GID of GIDSIZE bytes or more
\* is rejected with invalid-parameter and the used array, the free list and
\* the gxacts are left as they were, dead entries included; no used entry
\* ever carries such a GID
C20_GidLength ==
    [][\A b \in Backends :
          /\ IssuedPrepare(b) =>
                /\ strlen(bk'[b].gid) >= GIDSIZE
                   => /\ pc'[b] = "ERROR"
                      /\ bk'[b].err = "invalid_parameter"
                      /\ UNCHANGED registry
                /\ (pc'[b] = "ERROR" /\ bk'[b].err = "invalid_parameter")
                   => strlen(bk'[b].gid) > GIDSIZE - 1
          /\ \A s \in Range(prepXacts') : strlen(gxacts'[s].gid) = GIDSIZE - 1]_vars

C20_Witness ==
    \E b \in Backends :
        /\ Failed(b, "invalid_parameter")
        /\ strlen(bk[b].gid) = GIDSIZE
        /\ \E e \in UsedEntries : Dead(e)

\* ------------------------------------ claims about failures and the startup

\* The position that follows each position of CritSectionIO
CritSectionNext ==
    [p \in CritSectionIO |->
        CASE p = "EndPrepare_XLogInsert" -> "EndPrepare_XLogFlush"
          [] p = "EndPrepare_XLogFlush" -> "EndPrepare_writeCrc"
          [] p = "EndPrepare_writeCrc" -> "EndPrepare_fsync2"
          [] p = "EndPrepare_fsync2" -> "EndPrepare_close"
          [] p = "EndPrepare_close" -> "MarkAsPrepared"
          [] p = "Commit_XLogInsert" -> "Commit_XLogFlush"
          [] p = "Commit_XLogFlush" -> "Commit_clog"
          [] p = "Commit_clog" -> "Commit_clogTree"
          [] p = "Commit_clogTree" -> "Commit_end"
          [] p = "Abort_XLogFlush" -> "Abort_clog"
          [] p = "Abort_clog" -> "Abort_clogTree"
          [] p = "Abort_clogTree" -> "ProcArrayRemove"]

\* C21: a backend inside a critical section either stays, goes on to the
\* next step, or the server crashes and restarts; and while the server is up
\* a state file with a PREPARE record in the WAL and no correct CRC belongs
\* to a backend that is between the WAL insert and the CRC write
C21_CritSectionPanics ==
    [][/\ \A b \in Backends :
             pc[b] \in CritSectionIO =>
                \/ pc'[b] = pc[b]
                \/ pc'[b] = CritSectionNext[pc[b]]
                \/ crashes' = crashes + 1 /\ startup' = "redo"
       /\ startup' = "up" =>
             \A x \in Xids :
                (HasPrepare(wal', x) /\ files'[x].exists /\ ~ValidOn(files', x))
                => \E b \in Backends :
                      /\ pc'[b] \in {"EndPrepare_XLogFlush", "EndPrepare_writeCrc"}
                      /\ bk'[b].xid = x]_vars

C21_Witness ==
    /\ startup = "redo"
    /\ \E x \in interrupted.logged : ~ValidOn(files, x[1])

\* The order of two TransactionIds as unsigned numbers
UnsignedGE(id1, id2) ==
    IF (id1 < 0) = (id2 < 0) THEN id1 >= id2 ELSE id1 < 0

\* The startup has run its prescan and no command has started since
SinceStartup ==
    /\ prescan # NoPrescan
    /\ startup \in {"recover", "up", "failed"}
    /\ ncmds = interrupted.ncmds

Accepted == IF startup = "recover" THEN ExistingFiles(files) ELSE {}

Oldest(S) == CHOOSE x \in S : \A y \in S : y - x >= 0

\* C24: the prescan returns the oldest xid among the state files it
\* accepted, and the nextXid it started from when it accepted none; the
\* files it deleted have no part in the result
C24_PrescanResult ==
    startup = "recover" =>
        prescan.result = IF Accepted = {} THEN prescan.origNextXid
                         ELSE Oldest(Accepted)

C24_Witness ==
    /\ startup = "recover"
    /\ Cardinality(Accepted) > 1
    /\ prescan.result = Oldest(Accepted)
    /\ \E x \in prescan.seen \ Accepted :
          /\ TransactionIdPrecedes(x, prescan.origNextXid)
          /\ TransactionIdPrecedes(x, prescan.result)

\* A state file that RecoverPreparedTransactions does not load: pg_clog has
\* the outcome of its xid, or ReadTwoPhaseFile rejects it
Stale(x) == clog[x] \in {XCOMMITTED, XABORTED}

\* C25: when RecoverPreparedTransactions has run, every state file whose xid
\* pg_clog has as committed or aborted, and every file that fails
\* validation, is removed, has no registry entry and had no recover
\* callback run for it (the lock manager holds no lock for it)
C25_RecoverRemovesStale ==
    [][(startup = "recover" /\ startup' \in {"up", "failed"}) =>
          \A x \in AllXids :
              (files[x].exists /\ (Stale(x) \/ ~ValidOn(files, x))) =>
                 /\ ~files'[x].exists
                 /\ ~InRegistry(x)'
                 /\ x \notin locks']_vars

\* The positions in the array of the registry entries of an xid
EntriesOf(x) == { i \in DOMAIN prepXacts : gxacts[prepXacts[i]].xid = x }

\* The startup is over and no command has started since
StartupOver == SinceStartup /\ startup \in {"up", "failed"}

\* C26: after the prescan and the recover pass the state files left are
\* valid, of an xid before nextXid that pg_clog has in progress, and the
\* registry has exactly one entry for each of them and none besides: the
\* entry is valid, carries the database, owner and GID of the file's
\* header, has its dummy PGPROC in the ProcArray, and the owner's COMMIT or
\* ROLLBACK PREPARED can lock it
C26_RegistryRebuilt ==
    StartupOver =>
        /\ \A x \in AllXids :
              files[x].exists =>
                 /\ ValidOn(files, x)
                 /\ TransactionIdPrecedes(x, nextXid)
                 /\ clog[x] = XIP
                 /\ Cardinality(EntriesOf(x)) = 1
                 /\ \A i \in EntriesOf(x) :
                       LET e == gxacts[prepXacts[i]]
                       IN /\ e.valid
                          /\ e.databaseId = HdrDatabase(files[x].bytes)
                          /\ e.owner = HdrOwner(files[x].bytes)
                          /\ e.gid = HdrGid(files[x].bytes)
                          /\ prepXacts[i] \in procArray
                          /\ LockGXact(Registry, e.gid, e.owner, nextXid).err
                                = "none"
        /\ \A i \in DOMAIN prepXacts :
              files[gxacts[prepXacts[i]].xid].exists

\* The rows owed for a list of gxacts: one for each valid one, in order
RECURSIVE ValidRows(_)
ValidRows(array) ==
    IF array = << >> THEN << >>
    ELSE (IF Head(array).valid
          THEN << [transaction |-> Head(array).xid, gid |-> Head(array).gid,
                   ownerid |-> Head(array).owner,
                   dbid |-> Head(array).databaseId] >>
          ELSE << >>) \o ValidRows(Tail(array))

\* C27: the rows pg_prepared_xact has returned when it is done are one row
\* for each gxact with valid = true, and no other, of one list; the list is
\* the registry's array as it was at the first call, and later calls do not
\* change it
C27_ViewRows ==
    /\ [](\A b \in Backends :
             pc[b] = "SRF_DONE" => bk[b].rows = ValidRows(bk[b].array))
    /\ [][\A b \in Backends :
             /\ (pc[b] = "idle" /\ pc'[b] \in {"pg_prepared_xact", "SRF_DONE"})
                => bk'[b].array =
                      [i \in DOMAIN prepXacts |-> gxacts[prepXacts[i]]]
             /\ pc[b] = "pg_prepared_xact" => bk'[b].array = bk[b].array]_vars

C27_Witness ==
    \E b \in Backends :
        /\ pc[b] = "SRF_DONE"
        /\ Len(bk[b].array) = max_prepared_xacts
        /\ Len(bk[b].rows) = 1
        /\ GetPreparedTransactionList(Registry) # bk[b].array

\* The positions of a backend that has completed EndPrepare
EndPrepareDone == {"MarkAsPrepared", "ProcArrayAdd", "PostPrepare"}

\* The positions of a backend whose state file carries the inverted CRC
BogusCrcWritten ==
    {"EndPrepare_fsync", "EndPrepare_crit", "EndPrepare_XLogInsert",
     "EndPrepare_XLogFlush", "EndPrepare_writeCrc"}

\* C28: the state file of a completed EndPrepare is accepted by
\* ReadTwoPhaseFile, which returns what was written: the content that went
\* into the PREPARE record followed by its CRC, with total_len the size of
\* the file; RecreateTwoPhaseFile of the content of a PREPARE record gives
\* that same file; and the file with the inverted CRC is rejected, as
\* written and as fsynced
C28_CrcRoundTrip ==
    /\ \A b \in Backends :
          pc[b] \in EndPrepareDone =>
             \E i \in DOMAIN wal :
                /\ wal[i].type = "PREPARE" /\ wal[i].xid = bk[b].xid
                /\ ReadTwoPhaseFile(files, bk[b].xid)
                      = Append(wal[i].data, StateFileCrc(wal[i].data))
                /\ ReadTwoPhaseFile(disk, bk[b].xid)
                      = ReadTwoPhaseFile(files, bk[b].xid)
                /\ HdrTotalLen(files[bk[b].xid].bytes)
                      = Len(files[bk[b].xid].bytes)
                /\ RecreateTwoPhaseFile(files, bk[b].xid, wal[i].data)[bk[b].xid]
                      = files[bk[b].xid]
    /\ \A i \in DOMAIN wal :
          wal[i].type = "PREPARE" =>
             LET fs == RecreateTwoPhaseFile(files, wal[i].xid, wal[i].data)
                 buf == ReadTwoPhaseFile(fs, wal[i].xid)
             IN /\ buf = Append(wal[i].data, StateFileCrc(wal[i].data))
                /\ HdrTotalLen(buf) = Len(fs[wal[i].xid].bytes)
    /\ \A b \in Backends :
          pc[b] \in BogusCrcWritten =>
             /\ files[bk[b].xid].exists
             /\ ReadTwoPhaseFile(files, bk[b].xid) = << >>
             /\ ReadTwoPhaseFile(disk, bk[b].xid) = << >>

C28_Witness ==
    /\ \E b \in Backends :
          /\ pc[b] = "PostPrepare"
          /\ Len(bk[b].children) > 0
          /\ ValidOn(disk, bk[b].xid)
    /\ \E b \in Backends :
          /\ pc[b] = "EndPrepare_writeCrc"
          /\ disk[bk[b].xid].exists

\* The xids whose MarkAsPrepared has completed: PREPARE TRANSACTION has
\* returned for them or is about to
MarkedPrepared ==
    { p[1] : p \in prepared }
        \cup { bk[b].xid : b \in { c \in Backends : pc[c] = "PostPrepare" } }

\* A backend is running COMMIT PREPARED or ROLLBACK PREPARED of the xid
Finisher(x) ==
    \E b \in Backends : pc[b] \in FinishSteps /\ bk[b].xid = x

\* The prepared transactions not yet finished: no finish record was written
\* for them, or the command that wrote it is still running
StillPrepared == { x \in MarkedPrepared : x \notin finishing \/ Finisher(x) }

\* The dummy PGPROC of the xid is in the ProcArray
InProcArray(x) == \E s \in procArray : gxacts[s].xid = x

\* C29: on a running server a prepared transaction that pg_clog has in
\* progress has its dummy PGPROC in the ProcArray, up to the moment its
\* COMMIT or ROLLBACK PREPARED has put the outcome into pg_clog; and a dummy
\* PGPROC is taken out of the ProcArray only when pg_clog has the outcome
\* of its xid
C29_ProcArrayUntilClog ==
    /\ [](startup = "up" =>
             \A x \in StillPrepared : clog[x] = XIP => InProcArray(x))
    /\ [][(startup = "up" /\ startup' = "up") =>
             \A s \in procArray \ procArray' :
                 clog[gxacts[s].xid] # XIP]_vars

C29_Witness ==
    /\ startup = "up"
    /\ crashes > 0
    /\ \E b \in Backends :
          /\ pc[b] \in {"Commit_clog", "Abort_clog"}
          /\ bk[b].xid \in finishing
          /\ clog[bk[b].xid] = XIP
          /\ InProcArray(bk[b].xid)

\* The positions at which the next step of a backend is state-file I/O
StateFileIO ==
    {"EndPrepare", "EndPrepare_fsync", "EndPrepare_writeCrc",
     "EndPrepare_fsync2", "EndPrepare_close", "ReadTwoPhaseFile",
     "RemoveTwoPhaseFile"}

\* ... a WAL insert or flush (or the pg_clog update that follows it)
WalIO ==
    {"EndPrepare_crit", "EndPrepare_XLogInsert", "EndPrepare_XLogFlush",
     "Commit_crit", "Commit_XLogInsert", "Commit_XLogFlush", "Commit_clog",
     "Commit_clogTree", "Commit_end", "Abort_XLogInsert", "Abort_XLogFlush",
     "Abort_clog", "Abort_clogTree"}

\* ... a ProcArray insert or removal
ProcArrayChange == {"ProcArrayAdd", "ProcArrayRemove"}

\* ... a call into a resource manager: the prepare-time registration, the
\* hand-over of the locks, the finish callbacks, the relation unlinks
CallbackCalls == {"StartPrepare", "PostPrepare", "ProcessRecords", "smgrdounlink"}

\* The positions a backend is at between and after the registry operations
\* of a command
OutsideRegistry ==
    StateFileIO \cup WalIO \cup ProcArrayChange \cup CallbackCalls
        \cup {"MarkAsPrepared", "Invalidate", "RemoveGXact",
              "pg_prepared_xact", "SRF_DONE", "idle"}

\* C30: a backend that is about to do state-file I/O, a WAL insert or flush,
\* a ProcArray insert or removal or a callback does not hold
\* TwoPhaseStateLock, and neither does one that has returned from a registry
\* operation; and every step of a backend that takes it to such a position
\* (MarkAsPreparing, MarkAsPrepared, LockGXact, RemoveGXact,
\* GetPreparedTransactionList and TwoPhaseGetDummyProc among them) leaves the
\* lock free of that backend
C30_LockNotHeldOutsideRegistry ==
    /\ [](\A b \in Backends :
             pc[b] \in OutsideRegistry => b \notin TwoPhaseStateLock)
    /\ [][\A b \in Backends :
             (pc'[b] # pc[b] /\ pc'[b] # "ERROR") =>
                 b \notin TwoPhaseStateLock']_vars

\* MarkAsPrepared has returned and its backend is about to insert the dummy
\* PGPROC into the ProcArray, while another backend, whose GID was refused
\* under the lock, still holds it
C30_Witness ==
    \E b1, b2 \in Backends :
        /\ pc[b1] = "ProcArrayAdd"
        /\ gxacts[bk[b1].gx].valid
        /\ b1 \notin TwoPhaseStateLock
        /\ pc[b2] = "ERROR"
        /\ bk[b2].err = "duplicate_gid"
        /\ b2 \in TwoPhaseStateLock

\* The valid entry a COMMIT / ROLLBACK PREPARED of this GID finds
ValidEntrySlots(gid) ==
    { s \in Range(prepXacts) : gxacts[s].valid /\ gxacts[s].gid = gid }

\* C31: a COMMIT / ROLLBACK PREPARED issued by the owner or a superuser for
\* a GID whose valid entry carries the locking_xid of a transaction that is
\* no longer active does not fail with busy: it succeeds, on that entry, and
\* the entry's locking_xid is then the caller's xid
C31_StaleLockCleared ==
    [][\A b \in Backends :
          \A s \in ValidEntrySlots(bk'[b].gid) :
              (/\ IssuedFinish(b)
               /\ ~TransactionIdIsActive(gxacts[s].locking_xid)
               /\ ~PermissionDenied(bk'[b].user, gxacts[s]))
              => /\ pc'[b] = "ReadTwoPhaseFile"
                 /\ bk'[b].gx = s
                 /\ gxacts'[s].locking_xid = bk'[b].myxid
                 /\ gxacts'[s].valid]_vars

\* A finisher that has taken over an entry stamped by an earlier finisher
\* (the stamp it found is neither the entry's own xid nor an active xid)
C31_Witness ==
    \E b \in Backends :
        /\ pc[b] = "ReadTwoPhaseFile"
        /\ bk[b].stale # InvalidTransactionId
        /\ bk[b].stale # bk[b].xid
        /\ ~TransactionIdIsActive(bk[b].stale)
        /\ gxacts[bk[b].gx].locking_xid = bk[b].myxid

\* The slots of the used array whose prepare or finish died
DeadSlots == { s \in Range(prepXacts) : Dead(gxacts[s]) }

\* The slot this step has reserved, if it has reserved one
Reserved(b) == IF pc'[b] = "StartPrepare" THEN {bk'[b].gx} ELSE {}

\* C32: a PREPARE TRANSACTION that gets as far as the sweep of MarkAsPreparing
\* (its GID is not too long) takes out of the used array exactly the entries
\* with valid = false whose locking_xid is not active: all of them are gone,
\* they are on the free list (but for the one the same call reserves again),
\* their fields are as they were, and every other entry is still in the used
\* array, in its slot and unchanged
C32_SweepEvictsTheDead ==
    [][\A b \in Backends :
          (IssuedPrepare(b) /\ bk'[b].err # "invalid_parameter") =>
              /\ Range(prepXacts') = (Range(prepXacts) \ DeadSlots) \cup Reserved(b)
              /\ Range(freeGXacts') =
                    (Range(freeGXacts) \cup DeadSlots) \ Reserved(b)
              /\ Len(prepXacts') = Cardinality(Range(prepXacts'))
              /\ Len(freeGXacts') = Cardinality(Range(freeGXacts'))
              /\ \A s \in Slots \ Reserved(b) : gxacts'[s] = gxacts[s]]_vars

\* A reserve whose sweep has evicted both entries of the used array (the
\* second one after it was swapped into the place of the first).  Two
\* earlier PREPAREs have died in EndPrepare, each leaving its file behind;
\* the third one finds both entries dead, and gets the slot the free list
\* then has at its head, which is the one that was reserved last
C32_Witness ==
    \E b \in Backends :
        /\ pc[b] = "StartPrepare"
        /\ prepXacts = << bk[b].gx >>
        /\ bk[b].gx = InitFreeList(max_prepared_xacts)[2]
        /\ freeGXacts = << InitFreeList(max_prepared_xacts)[1] >>
        /\ Cardinality({ x \in Xids : files[x].exists /\ x < bk[b].xid }) = 2
        /\ ~files[bk[b].xid].exists

\* The positions of FinishPreparedTransaction after gxact->valid = false
AfterInvalidate ==
    {"ProcessRecords", "smgrdounlink", "RemoveTwoPhaseFile", "RemoveGXact"}

\* This step is backend b failing in a callback or a later step of its
\* COMMIT / ROLLBACK PREPARED: the command ends and the gxact is not removed
FinishFailed(b) ==
    /\ pc[b] \in AfterInvalidate
    /\ pc'[b] = "idle"
    /\ crashes' = crashes
    /\ bk[b].gx \in Range(prepXacts')

\* The used entries a failed finisher has left behind
FailedFinishSlots ==
    { s \in Range(prepXacts) :
         /\ ~gxacts[s].valid
         /\ gxacts[s].locking_xid # gxacts[s].xid
         /\ ~TransactionIdIsActive(gxacts[s].locking_xid) }

\* C33: when a callback or a later step of COMMIT / ROLLBACK PREPARED fails,
\* the entry is left in the used array with valid = false and the xid of the
\* finisher, which is no longer active; a COMMIT / ROLLBACK PREPARED issued
\* for the GID of such an entry fails with no-such-gid and changes nothing in
\* the registry; pg_prepared_xact returns no row for an entry of its list
\* that is not valid; and a PREPARE TRANSACTION that gets to the sweep takes
\* every such entry out of the used array and puts it on the free list
C33_FailedFinishIsDead ==
    /\ [](\A b \in Backends :
             pc[b] = "SRF_DONE" =>
                \A i \in DOMAIN bk[b].array :
                    ~bk[b].array[i].valid =>
                       PreparedXactRow(bk[b].array[i]) \notin Range(bk[b].rows))
    /\ [][\A b \in Backends :
             /\ FinishFailed(b) =>
                   /\ ~gxacts'[bk[b].gx].valid
                   /\ gxacts'[bk[b].gx].locking_xid = bk[b].myxid
                   /\ \A c \in Backends : bk'[c].myxid # bk[b].myxid
             /\ (/\ IssuedFinish(b)
                 /\ \E s \in FailedFinishSlots : gxacts[s].gid = bk'[b].gid)
                => /\ pc'[b] = "ERROR"
                   /\ bk'[b].err = "no_such_gid"
                   /\ UNCHANGED registry
             /\ (IssuedPrepare(b) /\ bk'[b].err # "invalid_parameter") =>
                   \A s \in FailedFinishSlots :
                       /\ s \notin Range(prepXacts') \ Reserved(b)
                       /\ s \in Range(freeGXacts') \cup Reserved(b)]_vars

\* A PREPARE TRANSACTION has evicted the entry of a failed finisher (and
\* taken its slot): no backend is finishing, pg_clog has the outcome of an
\* xid whose state file, which only a completed finish removes, is still
\* there, and no entry of the used array carries that xid
C33_Witness ==
    \E b \in Backends, x \in Xids :
        /\ pc[b] = "StartPrepare"
        /\ \A c \in Backends \ {b} : pc[c] = "idle"
        /\ clog[x] # XIP
        /\ files[x].exists
        /\ \A s \in Range(prepXacts) : gxacts[s].xid # x

\* The callback table of the outcome of the command backend b runs
OutcomeTable(b) == IF bk[b].isCommit THEN "postcommit" ELSE "postabort"

\* The records of the state file of b before the end sentinel whose rmid has
\* a callback in the table of the outcome
WantedRecords(b) ==
    LET wanted(r) == r.rmid \in NonNullCallbacks(OutcomeTable(b))
    IN SelectSeq(RecordList(bk[b].buf, RecordsOff(bk[b].buf)), wanted)

\* C34: when ProcessRecords has returned, the callbacks the backend has
\* invoked are those of the table of its outcome, one for each record of the
\* state file before the end sentinel whose rmid has a callback there, in
\* the order of the file, each with the xid, info and data of its record,
\* and the later steps invoke no more; the smgrdounlink step unlinks the
\* commit-drop files on COMMIT PREPARED and the abort-drop files on ROLLBACK
\* PREPARED, and none of the other list; no other step unlinks a file
C34_MatchingSideOnly ==
    /\ [](\A b \in Backends :
             pc[b] \in {"smgrdounlink", "RemoveTwoPhaseFile", "RemoveGXact"} =>
                /\ Len(bk[b].calls) = Len(WantedRecords(b))
                /\ \A i \in DOMAIN bk[b].calls :
                      bk[b].calls[i] =
                         [table |-> OutcomeTable(b), xid |-> bk[b].xid,
                          rmid |-> WantedRecords(b)[i].rmid,
                          info |-> WantedRecords(b)[i].info,
                          data |-> WantedRecords(b)[i].data])
    /\ [][/\ \A b \in Backends :
               /\ (pc[b] = "smgrdounlink" /\ pc'[b] = "RemoveTwoPhaseFile") =>
                     LET mine == IF bk[b].isCommit THEN CommitRelNodes(bk[b].buf)
                                 ELSE AbortRelNodes(bk[b].buf)
                         other == IF bk[b].isCommit THEN AbortRelNodes(bk[b].buf)
                                  ELSE CommitRelNodes(bk[b].buf)
                     IN /\ unlinked' = unlinked \cup Range(mine)
                        /\ Range(other) \cap unlinked' \subseteq unlinked
               /\ (pc[b] # "ProcessRecords" /\ bk'[b].calls # bk[b].calls) =>
                     bk'[b].calls = << >>
          /\ unlinked' # unlinked =>
                \E b \in Backends : pc[b] = "smgrdounlink"]_vars

\* A ROLLBACK PREPARED of a transaction whose file has a lock record, an
\* invalidation record and another lock record: the callbacks of the two
\* lock records have run, the invalidation record, which has no post-abort
\* callback, was passed over, and the abort-drop file is unlinked
C34_Witness ==
    \E b \in Backends :
        /\ pc[b] = "RemoveTwoPhaseFile"
        /\ ~bk[b].isCommit
        /\ Len(RecordList(bk[b].buf, RecordsOff(bk[b].buf))) = 3
        /\ RecordList(bk[b].buf, RecordsOff(bk[b].buf))[2].rmid
              = TWOPHASE_RM_INVAL_ID
        /\ Len(bk[b].calls) = 2
        /\ bk[b].calls[2].info = 3
        /\ unlinked = Range(AbortRelNodes(bk[b].buf))
\* This step is backend b failing in EndPrepare before its critical section
PrepareFailedEarly(b) ==
    /\ pc[b] \in {"EndPrepare", "EndPrepare_fsync"}
    /\ pc'[b] = "idle"

\* The used entries a PREPARE TRANSACTION that failed has left behind
FailedPrepareSlots ==
    { s \in Range(prepXacts) :
         /\ ~gxacts[s].valid
         /\ gxacts[s].locking_xid = gxacts[s].xid
         /\ ~TransactionIdIsActive(gxacts[s].xid) }

\* The WAL has a PREPARE record of the xid
HasPrepareRecord(log, xid) ==
    \E i \in DOMAIN log : log[i].type = "PREPARE" /\ log[i].xid = xid

\* C35: a failure of EndPrepare before its critical section (the state file
\* is there already, or the write, the fsync or the seek fails) is an
\* ordinary error: the server stays up, the WAL is as it was and has no
\* PREPARE record of the xid, a state file that was there already is as it
\* was, the entry stays in the used array with valid = false and is not in
\* the proc array (no step enters an entry there that is not being prepared
\* by the backend of the step), and a later PREPARE TRANSACTION that gets to
\* the sweep evicts it once the xid of the failed backend is not active
C35_EarlyPrepareFailure ==
    /\ [](\A s \in FailedPrepareSlots :
             /\ s \notin procArray
             /\ ~HasPrepareRecord(wal, gxacts[s].xid))
    /\ [][\A s \in procArray' \ procArray :
             \E b \in Backends :
                 /\ pc[b] = "ProcArrayAdd"
                 /\ pc'[b] = "PostPrepare"
                 /\ s = bk[b].gx
                 /\ gxacts[s].valid]_vars
    /\ [][\A b \in Backends :
             /\ PrepareFailedEarly(b) =>
                   /\ startup' = "up"
                   /\ crashes' = crashes
                   /\ wal' = wal
                   /\ walFlushed' = walFlushed
                   /\ ~HasPrepareRecord(wal', bk[b].xid)
                   /\ (pc[b] = "EndPrepare" /\ files[bk[b].xid].exists) =>
                         /\ files' = files
                         /\ disk' = disk
                   /\ UNCHANGED registry
                   /\ procArray' = procArray
                   /\ bk[b].gx \in FailedPrepareSlots'
             /\ (IssuedPrepare(b) /\ bk'[b].err # "invalid_parameter") =>
                   \A s \in FailedPrepareSlots :
                       /\ s \notin Range(prepXacts') \ Reserved(b)
                       /\ s \in Range(freeGXacts') \cup Reserved(b)]_vars

\* Two PREPAREs have failed in EndPrepare and a third has evicted their
\* entries: the first found the state file of its xid there already, and
\* the file is as it was; the second failed in its I/O and has left what it
\* wrote; the WAL is empty and the used array holds the third alone
C35_Witness ==
    \E b \in Backends :
        /\ pc[b] = "StartPrepare"
        /\ bk[b].xid = 3
        /\ prepXacts = << bk[b].gx >>
        /\ files[1] = LeftoverFile
        /\ files[2].exists
        /\ files[2].bytes # << >>
        /\ wal = << >>
        /\ procArray = {}

\* This step is backend b asking TwoPhaseGetDummyProc for the dummy PGPROC
\* of the transaction of its command: at the end of PREPARE TRANSACTION, or
\* in a callback of the lock manager during COMMIT / ROLLBACK PREPARED
AsksDummyProc(b) ==
    \/ pc[b] = "PostPrepare" /\ pc'[b] = "idle" /\ crashes' = crashes
    \/ /\ pc[b] = "ProcessRecords"
       /\ pc'[b] = "smgrdounlink"
       /\ \E i \in DOMAIN bk'[b].calls :
             bk'[b].calls[i].rmid = TWOPHASE_RM_LOCK_ID

\* C37: whenever TwoPhaseGetDummyProc returns a dummy PGPROC for an xid, it
\* is the one of an entry that is in the used array at that moment and
\* carries that xid, also when the answer comes from the statics
C37_DummyProcIsCurrent ==
    [][\A b \in Backends :
          AsksDummyProc(b) =>
             LET r == TwoPhaseGetDummyProc(Registry, bk[b].cached_xid,
                                           bk[b].cached_proc, bk[b].xid)
             IN r.proc # 0 =>
                   /\ r.proc \in Range(prepXacts)
                   /\ gxacts[r.proc].xid = bk[b].xid]_vars

\* This step is backend b failing in LockGXact
LockGXactFailed(b) == IssuedFinish(b) /\ pc'[b] = "ERROR"

\* C36 as stated: a LockGXact that fails (busy, permission denied or no such
\* GID) leaves every field of every entry of the registry as it was, the
\* locking_xid of the entry it matched included
C36_FailedLockChangesNothing_asStated ==
    [][\A b \in Backends : LockGXactFailed(b) => gxacts' = gxacts]_vars

\* C36: a LockGXact that fails leaves the used array and the free list as
\* they were; with busy or no such GID it leaves every entry as it was; with
\* permission denied it leaves every entry as it was but for the valid entry
\* of the GID, whose locking_xid, which is not the xid of an active
\* transaction, is InvalidTransactionId afterwards and whose other fields
\* are as they were
C36_FailedLockFrame ==
    [][\A b \in Backends :
          LockGXactFailed(b) =>
             /\ prepXacts' = prepXacts
             /\ freeGXacts' = freeGXacts
             /\ bk'[b].err \in {"busy", "no_such_gid"} => gxacts' = gxacts
             /\ bk'[b].err = "permission_denied" =>
                   /\ ValidEntrySlots(bk'[b].gid) # {}
                   /\ \A s \in Slots \ ValidEntrySlots(bk'[b].gid) :
                          gxacts'[s] = gxacts[s]
                   /\ \A s \in ValidEntrySlots(bk'[b].gid) :
                          /\ ~TransactionIdIsActive(gxacts[s].locking_xid)
                          /\ gxacts'[s] =
                                [gxacts[s] EXCEPT
                                    !.locking_xid = InvalidTransactionId]]_vars

\* A COMMIT / ROLLBACK PREPARED has failed with permission denied on a
\* prepared transaction nobody had tried to finish, and the entry, which
\* carried the xid of its PREPARE TRANSACTION, carries no locking_xid now
C36_Witness ==
    \E b \in Backends :
        /\ Failed(b, "permission_denied")
        /\ \E s \in ValidEntrySlots(bk[b].gid) :
              /\ gxacts[s].locking_xid = InvalidTransactionId
              /\ << gxacts[s].xid, gxacts[s].gid >> \in prepared
              /\ finishing = {}

\* The record this step has appended to the WAL, if it has appended one
Inserted == IF Len(wal') = Len(wal) + 1 /\ SubSeq(wal', 1, Len(wal)) = wal
            THEN { wal'[Len(wal')] } ELSE {}

\* C38: pg_clog never goes from committed to aborted for any xid; no
\* ABORT_PREPARED record is inserted for an xid pg_clog reports committed;
\* and a ROLLBACK PREPARED that gets to RecordTransactionAbortPrepared for
\* such an xid PANICs and leaves the WAL as it was
C38_CommittedNeverAborted ==
    /\ [][\A x \in AllXids :
             clog[x] = XCOMMITTED => clog'[x] # XABORTED]_vars
    /\ [][\A r \in Inserted :
             r.type = "ABORT_PREPARED" => ~TransactionIdDidCommit(r.xid)]_vars
    /\ [][\A b \in Backends :
             (/\ pc[b] = "Abort_XLogInsert"
              /\ pc'[b] # pc[b]
              /\ crashes' = crashes
              /\ TransactionIdDidCommit(bk[b].xid))
             => pc'[b] = "PANIC" /\ wal' = wal]_vars

\* A COMMIT / ROLLBACK PREPARED issued for a GID whose transaction pg_clog
\* already reports committed, while the entry is still valid in the used
\* array, has been turned away with busy
C38_Witness ==
    \E b \in Backends, s \in Range(prepXacts) :
        /\ Failed(b, "busy")
        /\ gxacts[s].gid = bk[b].gid
        /\ gxacts[s].valid
        /\ clog[gxacts[s].xid] = XCOMMITTED

\* The slots of the used array (before or after the step) whose valid or
\* locking_xid this step writes
FlagsWritten ==
    { s \in Range(prepXacts) \cup Range(prepXacts') :
         \/ gxacts'[s].valid # gxacts[s].valid
         \/ gxacts'[s].locking_xid # gxacts[s].locking_xid }

Prescanned == startup = "prescan" /\ startup' = "recover"

\* C40: the files the prescan removes and the files it keeps are the same in
\* whatever order the directory is read; the files kept are those whose xid
\* precedes nextXid as it was when the prescan began and whose content is
\* valid under their name: a file is not removed as lying in the future
\* because a file read before it has advanced nextXid past it
C40_PrescanOrderIndependent ==
    [][Prescanned =>
          /\ \A order \in Orders(ExistingFiles(files)) :
                PrescanPreparedTransactions(order).files = files'
          /\ ExistingFiles(files') =
                { x \in ExistingFiles(files) :
                     /\ TransactionIdPrecedes(x, nextXid)
                     /\ ValidOn(files, x)
                     /\ HdrXid(ReadTwoPhaseFile(files, x)) = x }
          /\ \A x \in ExistingFiles(files') : files'[x] = files[x]]_vars

\* The prescan has read at least two files and has kept one that does not
\* precede nextXid as the subtransaction of another file has advanced it
C40_Witness ==
    /\ startup = "recover"
    /\ prescan.origNextXid # nextXid
    /\ Cardinality(prescan.seen) >= 2
    /\ \E x \in ExistingFiles(files) :
          TransactionIdFollowsOrEquals(x, nextXid)

====
